---------------------------- MODULE Spec2Model ----------------------------
(***************************************************************************)
(* New Homes Lead Tracker API (src/main.py): the authorization-scoped      *)
(* access layer.  The state is the SQLite store (users, agents, visitors,  *)
(* visitor_notes), the wall clock, the session tokens the server has       *)
(* issued, and the response the server has just produced.  Each request    *)
(* handler of src/main.py is one action; a handler runs inside one get_db  *)
(* transaction, so it either commits all of its writes or none.            *)
(***************************************************************************)
EXTENDS Integers, Sequences, FiniteSets, TLC

VARIABLES
    users,          \* table users: sequence of rows, row i has id i (AUTOINCREMENT)
    agents,         \* table agents: set of agent ids
    visitors,       \* table visitors: function id -> row, over the stored ids
    visitor_notes,  \* table visitor_notes: set of rows
    sqlite_sequence,\* AUTOINCREMENT counters of visitors and visitor_notes
    webhook_url,    \* ZAPIER_WEBHOOK_URL of this deployment ("" = not configured)
    zapier_calls,   \* outbound POSTs made so far (sequence of visitor ids)
    clock,          \* wall clock, in minutes
    tokens,         \* session tokens issued by login and still held by clients
    last,           \* the response just produced (op = "none": none pending)
    inflight        \* per worker, the request it runs step by step

storeVars == <<users, agents, visitors, visitor_notes, sqlite_sequence>>
visitorVars == <<visitors, visitor_notes, sqlite_sequence, zapier_calls>>
vars == <<users, agents, visitors, visitor_notes, sqlite_sequence, webhook_url,
          zapier_calls, clock, tokens, last, inflight>>

(***************************************************************************)
(* Values.  NULL is SQL NULL / Python None in an integer column; NONE is   *)
(* None where the other values are strings.                                *)
(***************************************************************************)
NULL == -1
NONE == "<None>"

Truthy(s) == s # NONE /\ s # ""

\* Program configuration (src/main.py lines 35-47)
SECRET_KEY == "your-secret-key-change-this-in-production"
ACCESS_TOKEN_EXPIRE_MINUTES == 480
SUPER_ADMIN_USERNAME == "superadmin"
SUPER_ADMIN_PASSWORD == "ChangeMeOnFirstLogin123!"
SUPER_ADMIN_EMAIL == "admin@example.com"

UserRole == {"super_admin", "admin", "user"}

\* Bounds of the model
MaxTicks == 3
MaxTokens == 3
MaxVisitors == 2
MaxNotes == 2

\* The clock advances in steps of half a token lifetime.
TickMinutes == ACCESS_TOKEN_EXPIRE_MINUTES \div 2

(***************************************************************************)
(* Password hashing (passlib bcrypt): the hash is not the password, and a  *)
(* password verifies against exactly the hashes made from it.              *)
(***************************************************************************)
get_password_hash(password) == <<"bcrypt", password>>

verify_password(plain_password, hashed_password) ==
    hashed_password = get_password_hash(plain_password)

(***************************************************************************)
(* Session tokens.  A token carries {sub, exp} and the key that signed it. *)
(***************************************************************************)
create_access_token(sub, now, expires_delta) ==
    [sub |-> sub, exp |-> now + expires_delta, key |-> SECRET_KEY]

\* jwt.decode with the expiry left unverified.
jwt_decode_no_exp(token, now) ==
    IF token.key # SECRET_KEY
    THEN [ok |-> FALSE, kind |-> "bad_signature", sub |-> NONE]
    ELSE [ok |-> TRUE, kind |-> "valid", sub |-> token.sub]

\* jwt.decode: signature first, then expiry.  "JWTError" covers both failures
\* (ExpiredSignatureError is a JWTError); kind keeps which one it was.
jwt_decode(token, now) ==
    IF token.key # SECRET_KEY
    THEN [ok |-> FALSE, kind |-> "bad_signature", sub |-> NONE]
    ELSE IF token.exp < now
    THEN [ok |-> FALSE, kind |-> "expired", sub |-> NONE]
    ELSE [ok |-> TRUE, kind |-> "valid", sub |-> token.sub]

\* The lookup without "AND active = 1".
ActiveUsersNamed_any(us, username) ==
    {i \in 1..Len(us) : us[i].username = username}

\* Rows of users matching  WHERE username = ? AND active = 1
ActiveUsersNamed(us, username) ==
    {i \in 1..Len(us) : us[i].username = username /\ us[i].active = 1}

UsersNamed(us, username) ==
    {i \in 1..Len(us) : us[i].username = username}

UserInDB(row) ==
    [id |-> row.id, username |-> row.username, role |-> row.role,
     agent_id |-> row.agent_id, active |-> row.active]

NoUser == [id |-> NULL, username |-> NONE, role |-> NONE, agent_id |-> NULL,
           active |-> NULL]

credentials_exception ==
    [status |-> 401, detail |-> "Could not validate credentials"]

\* get_current_user deciding on the role each subject had at its login at
\* time 0 (the seeded account super_admin, any other admin) instead of the
\* role in the live row.
get_current_user_role_at_login(token, us, now) ==
    LET payload == jwt_decode(token, now) IN
    IF ~payload.ok
    THEN [ok |-> FALSE, cause |-> payload.kind, user |-> NoUser,
          status |-> credentials_exception.status,
          detail |-> credentials_exception.detail]
    ELSE LET rows == ActiveUsersNamed(us, payload.sub) IN
         IF rows = {}
         THEN [ok |-> FALSE, cause |-> "unknown_or_inactive", user |-> NoUser,
               status |-> credentials_exception.status,
               detail |-> credentials_exception.detail]
         ELSE [ok |-> TRUE, cause |-> "resolved",
               user |-> [UserInDB(us[CHOOSE i \in rows : TRUE])
                           EXCEPT !.role =
                               IF payload.sub = SUPER_ADMIN_USERNAME
                               THEN "super_admin" ELSE "admin"],
               status |-> 200, detail |-> ""]

\* get_current_user: decode the token, then re-fetch the live user row.
\* cause names the raise site; the caller only sees status and detail.
get_current_user(token, us, now) ==
    LET payload == jwt_decode(token, now) IN
    IF ~payload.ok
    THEN [ok |-> FALSE, cause |-> payload.kind, user |-> NoUser,
          status |-> credentials_exception.status,
          detail |-> credentials_exception.detail]
    ELSE LET rows == ActiveUsersNamed(us, payload.sub) IN
         IF rows = {}
         THEN [ok |-> FALSE, cause |-> "unknown_or_inactive", user |-> NoUser,
               status |-> credentials_exception.status,
               detail |-> credentials_exception.detail]
         ELSE [ok |-> TRUE, cause |-> "resolved",
               user |-> UserInDB(us[CHOOSE i \in rows : TRUE]),
               status |-> 200, detail |-> ""]

\* get_current_admin_user with user let through by the role test.
get_current_admin_user_any_role(token, us, now) ==
    LET cu == get_current_user(token, us, now) IN
    IF cu.ok /\ cu.user.role \notin {"admin", "super_admin", "user"}
    THEN [cu EXCEPT !.ok = FALSE, !.cause = "not_admin", !.status = 403,
                    !.detail = "Not enough permissions"]
    ELSE cu

get_current_admin_user(token, us, now) ==
    LET cu == get_current_user(token, us, now) IN
    IF cu.ok /\ cu.user.role \notin {"admin", "super_admin"}
    THEN [cu EXCEPT !.ok = FALSE, !.cause = "not_admin", !.status = 403,
                    !.detail = "Not enough permissions"]
    ELSE cu

(***************************************************************************)
(* Responses.                                                              *)
(***************************************************************************)
NoBody == [none |-> TRUE]

\* status, detail and body are what the client receives.  op, caller (the
\* identity the request was resolved to), request (its inputs) and cause (the
\* place in the handler that answered) stay on the server.
Response(op, caller, request, cause, status, detail, body) ==
    [op |-> op, caller |-> caller, request |-> request, cause |-> cause,
     status |-> status, detail |-> detail, body |-> body]

\* A response together with the rows its queries matched (server side).
WithRows(response, rows) ==
    [op |-> response.op, caller |-> response.caller,
     request |-> response.request, cause |-> response.cause,
     status |-> response.status, detail |-> response.detail,
     body |-> response.body, rows |-> rows]

Visible(response) ==
    [status |-> response.status, detail |-> response.detail,
     body |-> response.body]

NoResponse == Response("none", NoUser, NoBody, "", 0, "", NoBody)

\* A failed dependency (authentication, role) answers before the handler runs.
Denied(op, auth, request) ==
    Response(op, auth.user, request, auth.cause, auth.status, auth.detail,
             NoBody)

Idle == last.op = "none"

\* The response leaves the server; the client may send its next request.
SendResponse ==
    /\ last.op # "none"
    /\ last' = NoResponse
    /\ UNCHANGED <<inflight, storeVars, webhook_url, zapier_calls, clock, tokens>>

Tick ==
    /\ Idle
    /\ clock \div TickMinutes < MaxTicks
    /\ clock' = clock + TickMinutes
    /\ UNCHANGED <<inflight, storeVars, webhook_url, zapier_calls, tokens, last>>


(***************************************************************************)
(* Authentication: POST /login.                                            *)
(***************************************************************************)
\* authenticate_user stamping last_login before it verifies the password.
authenticate_user_stamps_attempts(us, username, password, now) ==
    LET rows == ActiveUsersNamed(us, username) IN
    IF rows = {}
    THEN [ok |-> FALSE, cause |-> "no_active_user", user |-> NoUser, users |-> us]
    ELSE LET i == CHOOSE r \in rows : TRUE IN
         IF ~verify_password(password, us[i].password_hash)
         THEN [ok |-> FALSE, cause |-> "bad_password", user |-> NoUser,
               users |-> [us EXCEPT ![i].last_login = now]]
         ELSE [ok |-> TRUE, cause |-> "authenticated", user |-> UserInDB(us[i]),
               users |-> [us EXCEPT ![i].last_login = now]]

\* authenticate_user: [ok, user, users]; last_login is written on success only.
authenticate_user(us, username, password, now) ==
    LET rows == ActiveUsersNamed(us, username) IN
    IF rows = {}
    THEN [ok |-> FALSE, cause |-> "no_active_user", user |-> NoUser, users |-> us]
    ELSE LET i == CHOOSE r \in rows : TRUE IN
         IF ~verify_password(password, us[i].password_hash)
         THEN [ok |-> FALSE, cause |-> "bad_password", user |-> NoUser,
               users |-> us]
         ELSE [ok |-> TRUE, cause |-> "authenticated", user |-> UserInDB(us[i]),
               users |-> [us EXCEPT ![i].last_login = now]]

\* login answering each cause of a failed authentication in its own words.
login_failure_by_cause(auth) ==
    [status |-> 401,
     detail |-> IF auth.cause = "bad_password" THEN "Incorrect password"
                ELSE "Unknown or disabled account",
     body |-> NoBody]

\* The Token response of a successful login.
Token(access_token, user) ==
    [access_token |-> access_token, token_type |-> "bearer",
     role |-> user.role, username |-> user.username,
     agent_id |-> user.agent_id]

\* What login answers when authenticate_user returns None.
login_failure(auth) ==
    [status |-> 401, detail |-> "Incorrect username or password",
     body |-> NoBody]

login(username, password) ==
    /\ Idle
    /\ LET auth == authenticate_user(users, username, password, clock) IN
       IF ~auth.ok
       THEN /\ last' = Response("login", NoUser,
                                [username |-> username, password |-> password],
                                auth.cause, login_failure(auth).status,
                                login_failure(auth).detail,
                                login_failure(auth).body)
            /\ users' = auth.users
            /\ UNCHANGED tokens
       ELSE LET access_token == create_access_token(auth.user.username, clock,
                                                    ACCESS_TOKEN_EXPIRE_MINUTES)
            IN /\ access_token \in tokens \/ Cardinality(tokens) < MaxTokens
               /\ users' = auth.users
               /\ tokens' = tokens \cup {access_token}
               /\ last' = Response("login", auth.user,
                              [username |-> username, password |-> password],
                              auth.cause, 200, "",
                              Token(access_token, auth.user))
    /\ UNCHANGED <<inflight, agents, visitorVars, webhook_url, clock>>

\* GET /me: token resolution and nothing else.
read_users_me(token) ==
    /\ Idle
    /\ LET auth == get_current_user(token, users, clock) IN
       IF ~auth.ok
       THEN last' = Denied("read_users_me", auth, [token |-> token])
       ELSE last' = Response("read_users_me", auth.user, [token |-> token],
                             auth.cause, 200, "", auth.user)
    /\ UNCHANGED <<inflight, storeVars, webhook_url, zapier_calls, clock, tokens>>

(***************************************************************************)
(* User administration: /users.                                            *)
(***************************************************************************)
\* "Only super_admin can create super_admin users"
create_user_forbidden(user, current_user) ==
    user.role = "super_admin" /\ current_user.role # "super_admin"

\* create_user after its dependency resolved: [status, detail, body, users]
agent_not_found_unchecked(agent_id, ags) == FALSE

\* "Verify agent_id exists if provided", in create_user and update_user.
agent_not_found(agent_id, ags) == agent_id # NULL /\ agent_id \notin ags

create_user_body(user, current_user, us, ags) ==
    IF create_user_forbidden(user, current_user)
    THEN [cause |-> "forbidden", status |-> 403,
          detail |-> "Only super admin can create super admin users",
          body |-> NoBody, users |-> us]
    ELSE IF user.role \notin UserRole
    THEN [cause |-> "invalid_role", status |-> 400, detail |-> "Invalid role", body |-> NoBody,
          users |-> us]
    ELSE IF UsersNamed(us, user.username) # {}
    THEN [cause |-> "duplicate", status |-> 400, detail |-> "Username already exists",
          body |-> NoBody, users |-> us]
    ELSE IF agent_not_found(user.agent_id, ags)
    THEN [cause |-> "agent_not_found", status |-> 404, detail |-> "Agent not found", body |-> NoBody,
          users |-> us]
    ELSE LET id == Len(us) + 1 IN
         [cause |-> "done", status |-> 200, detail |-> "",
          body |-> [id |-> id, username |-> user.username, role |-> user.role],
          users |-> Append(us,
              [id |-> id, username |-> user.username,
               password_hash |-> get_password_hash(user.password),
               email |-> user.email, role |-> user.role,
               agent_id |-> user.agent_id, active |-> 1,
               last_login |-> NULL])]

create_user(token, user) ==
    /\ Idle
    /\ LET auth == get_current_admin_user(token, users, clock) IN
       IF ~auth.ok
       THEN /\ last' = Denied("create_user", auth, [token |-> token, user |-> user])
            /\ UNCHANGED users
       ELSE LET r == create_user_body(user, auth.user, users, agents) IN
            /\ users' = r.users
            /\ last' = Response("create_user", auth.user, [token |-> token, user |-> user],
                                r.cause, r.status, r.detail, r.body)
    /\ UNCHANGED <<inflight, agents, visitorVars, webhook_url, clock, tokens>>

\* The columns list_users selects (no password_hash).
UserListing(row) ==
    [id |-> row.id, username |-> row.username, email |-> row.email,
     role |-> row.role, agent_id |-> row.agent_id, active |-> row.active,
     last_login |-> row.last_login]

list_users(token) ==
    /\ Idle
    /\ LET auth == get_current_admin_user(token, users, clock) IN
       IF ~auth.ok
       THEN last' = Denied("list_users", auth, [token |-> token])
       ELSE last' = Response("list_users", auth.user, [token |-> token],
                        auth.cause,
                        200, "",
                        [users |-> {UserListing(users[i]) : i \in 1..Len(users)}])
    /\ UNCHANGED <<inflight, storeVars, webhook_url, zapier_calls, clock, tokens>>

\* update_user's guard of super_admin targets, written as an admin-or-above test.
update_user_forbidden_target_admin_ok(existing_user, current_user) ==
    /\ existing_user.role = "super_admin"
    /\ current_user.role \notin {"admin", "super_admin"}

\* "Only super_admin can modify super_admin users"
update_user_forbidden_target(existing_user, current_user) ==
    existing_user.role = "super_admin" /\ current_user.role # "super_admin"

\* "Only super_admin can change role to super_admin"
update_user_forbidden_role(user_update, current_user) ==
    user_update.role = "super_admin" /\ current_user.role # "super_admin"

\* The SET list update_user builds: the row after the UPDATE.
update_user_row(row, user_update) ==
    [row EXCEPT
       !.email = IF user_update.email # NONE THEN user_update.email ELSE @,
       !.password_hash = IF user_update.password # NONE
                         THEN get_password_hash(user_update.password) ELSE @,
       !.role = IF user_update.role # NONE THEN user_update.role ELSE @,
       !.agent_id = IF user_update.agent_id # NULL
                    THEN user_update.agent_id ELSE @,
       !.active = IF user_update.active # NULL
                  THEN (IF user_update.active = 1 THEN 1 ELSE 0) ELSE @]

update_user_no_updates(user_update) ==
    /\ user_update.email = NONE
    /\ user_update.password = NONE
    /\ user_update.role = NONE
    /\ user_update.agent_id = NULL
    /\ user_update.active = NULL

\* update_user keeping what it wrote before a check failed (an UPDATE ahead
\* of the agent lookup, and no rollback).
update_user_body_no_rollback(user_id, user_update, current_user, us, ags) ==
    IF user_id \notin 1..Len(us)
    THEN [cause |-> "user_not_found", status |-> 404, detail |-> "User not found", users |-> us]
    ELSE IF update_user_forbidden_target(us[user_id], current_user)
    THEN [cause |-> "forbidden", status |-> 403,
          detail |-> "Only super admin can modify super admin users",
          users |-> us]
    ELSE IF update_user_forbidden_role(user_update, current_user)
    THEN [cause |-> "forbidden", status |-> 403,
          detail |-> "Only super admin can assign super admin role",
          users |-> us]
    ELSE IF agent_not_found(user_update.agent_id, ags)
    THEN [cause |-> "agent_not_found", status |-> 404, detail |-> "Agent not found",
          users |-> [us EXCEPT ![user_id] = update_user_row(@, user_update)]]
    ELSE IF user_update.role # NONE /\ user_update.role \notin UserRole
    THEN [cause |-> "invalid_role", status |-> 400, detail |-> "Invalid role", users |-> us]
    ELSE IF update_user_no_updates(user_update)
    THEN [cause |-> "no_updates", status |-> 400, detail |-> "No updates provided", users |-> us]
    ELSE [cause |-> "done", status |-> 200, detail |-> "User updated successfully",
          users |-> [us EXCEPT ![user_id] = update_user_row(@, user_update)]]

update_user_body(user_id, user_update, current_user, us, ags) ==
    IF user_id \notin 1..Len(us)
    THEN [cause |-> "user_not_found", status |-> 404, detail |-> "User not found", users |-> us]
    ELSE IF update_user_forbidden_target(us[user_id], current_user)
    THEN [cause |-> "forbidden", status |-> 403,
          detail |-> "Only super admin can modify super admin users",
          users |-> us]
    ELSE IF update_user_forbidden_role(user_update, current_user)
    THEN [cause |-> "forbidden", status |-> 403,
          detail |-> "Only super admin can assign super admin role",
          users |-> us]
    ELSE IF agent_not_found(user_update.agent_id, ags)
    THEN [cause |-> "agent_not_found", status |-> 404, detail |-> "Agent not found", users |-> us]
    ELSE IF user_update.role # NONE /\ user_update.role \notin UserRole
    THEN [cause |-> "invalid_role", status |-> 400, detail |-> "Invalid role", users |-> us]
    ELSE IF update_user_no_updates(user_update)
    THEN [cause |-> "no_updates", status |-> 400, detail |-> "No updates provided", users |-> us]
    ELSE [cause |-> "done", status |-> 200, detail |-> "User updated successfully",
          users |-> [us EXCEPT ![user_id] = update_user_row(@, user_update)]]

update_user(token, user_id, user_update) ==
    /\ Idle
    /\ LET auth == get_current_admin_user(token, users, clock) IN
       IF ~auth.ok
       THEN /\ last' = Denied("update_user", auth,
                              [token |-> token, user_id |-> user_id,
                               user_update |-> user_update])
            /\ UNCHANGED users
       ELSE LET r == update_user_body(user_id, user_update, auth.user, users,
                                      agents) IN
            /\ users' = r.users
            /\ last' = Response("update_user", auth.user,
                              [token |-> token, user_id |-> user_id,
                               user_update |-> user_update],
                              r.cause, r.status, r.detail, NoBody)
    /\ UNCHANGED <<inflight, agents, visitorVars, webhook_url, clock, tokens>>

\* "Cannot delete yourself"
delete_user_self(user_id, current_user) == user_id = current_user.id

\* "Only super_admin can delete super_admin users"
delete_user_forbidden(existing_user, current_user) ==
    existing_user.role = "super_admin" /\ current_user.role # "super_admin"

\* delete_user removing the row (DELETE FROM users WHERE id = ?).
delete_user_body_hard_delete(user_id, current_user, us) ==
    IF user_id \notin 1..Len(us)
    THEN [cause |-> "user_not_found", status |-> 404, detail |-> "User not found", users |-> us]
    ELSE IF delete_user_self(user_id, current_user)
    THEN [cause |-> "self", status |-> 400, detail |-> "Cannot delete your own account",
          users |-> us]
    ELSE IF delete_user_forbidden(us[user_id], current_user)
    THEN [cause |-> "forbidden", status |-> 403,
          detail |-> "Only super admin can delete super admin users",
          users |-> us]
    ELSE [cause |-> "done", status |-> 200, detail |-> "User deactivated successfully",
          users |-> SubSeq(us, 1, user_id - 1)
                      \o SubSeq(us, user_id + 1, Len(us))]

delete_user_body(user_id, current_user, us) ==
    IF user_id \notin 1..Len(us)
    THEN [cause |-> "user_not_found", status |-> 404, detail |-> "User not found", users |-> us]
    ELSE IF delete_user_self(user_id, current_user)
    THEN [cause |-> "self", status |-> 400, detail |-> "Cannot delete your own account",
          users |-> us]
    ELSE IF delete_user_forbidden(us[user_id], current_user)
    THEN [cause |-> "forbidden", status |-> 403,
          detail |-> "Only super admin can delete super admin users",
          users |-> us]
    ELSE [cause |-> "done", status |-> 200, detail |-> "User deactivated successfully",
          users |-> [us EXCEPT ![user_id].active = 0]]

delete_user(token, user_id) ==
    /\ Idle
    /\ LET auth == get_current_admin_user(token, users, clock) IN
       IF ~auth.ok
       THEN /\ last' = Denied("delete_user", auth,
                              [token |-> token, user_id |-> user_id])
            /\ UNCHANGED users
       ELSE LET r == delete_user_body(user_id, auth.user, users) IN
            /\ users' = r.users
            /\ last' = Response("delete_user", auth.user,
                                [token |-> token, user_id |-> user_id],
                                r.cause, r.status, r.detail, NoBody)
    /\ UNCHANGED <<inflight, agents, visitorVars, webhook_url, clock, tokens>>

(***************************************************************************)
(* Text columns.  A TEXT value is the sequence of its characters; a        *)
(* nullable one is <<>> when it is NULL, and so is an Optional[str]        *)
(* parameter that is None or empty (both are falsy).                       *)
(***************************************************************************)
\* The characters the inputs use, in byte order (SQLite's BINARY collation).
Alphabet ==
    <<" ", "%", ".", "0", "1", "5", "@", "A", "B", "_", "a", "b", "c", "n",
      "o", "s", "x">>

Ord(c) == CHOOSE i \in 1..Len(Alphabet) : Alphabet[i] = c

\* ORDER BY on a TEXT column: a sorts strictly before b.
TextLess(a, b) ==
    \E k \in 1..Len(b) :
        /\ k - 1 <= Len(a)
        /\ \A i \in 1..(k - 1) : a[i] = b[i]
        /\ \/ Len(a) = k - 1
           \/ Len(a) >= k /\ Ord(a[k]) < Ord(b[k])

\* LIKE folds the case of ASCII letters.
Lower(c) ==
    CASE c = "A" -> "a"
      [] c = "B" -> "b"
      [] OTHER -> c

\* text LIKE pattern: % matches any run of characters, _ any one character.
RECURSIVE Like(_, _)
Like(text, pattern) ==
    IF pattern = <<>> THEN text = <<>>
    ELSE IF Head(pattern) = "%"
         THEN Like(text, Tail(pattern))
              \/ (text # <<>> /\ Like(Tail(text), pattern))
    ELSE IF text = <<>> THEN FALSE
    ELSE /\ Head(pattern) = "_" \/ Lower(Head(pattern)) = Lower(Head(text))
         /\ Like(Tail(text), Tail(pattern))

\* DATE(t) of a timestamp: the clock counts minutes.
MinutesPerDay == 1440
Date(t) == t \div MinutesPerDay

(***************************************************************************)
(* Zapier webhook.  outcome is what the network does with the POST: "ok"   *)
(* (a non-error status), "http_error" (a 4xx/5xx status, raised by         *)
(* raise_for_status), "unreachable" (ConnectionError) or "timeout".        *)
(***************************************************************************)
SyncOutcomes == {"ok", "http_error", "unreachable", "timeout"}

\* str(e) of the RequestException the outcome raises.
RequestException(outcome) ==
    CASE outcome = "http_error" -> "500 Server Error: Internal Server Error for url"
      [] outcome = "unreachable" -> "Max retries exceeded: Failed to establish a new connection"
      [] outcome = "timeout" -> "Read timed out. (read timeout=10)"

sync_to_zapier_no_raise_for_status(url, outcome) ==
    IF url = ""
    THEN [success |-> FALSE, error |-> "Zapier webhook URL not configured",
          called |-> FALSE]
    ELSE IF outcome \in {"ok", "http_error"}
         THEN [success |-> TRUE, error |-> NONE, called |-> TRUE]
         ELSE [success |-> FALSE, error |-> RequestException(outcome),
               called |-> TRUE]

sync_to_zapier_always_posts(url, outcome) ==
    IF outcome = "ok"
    THEN [success |-> TRUE, error |-> NONE, called |-> TRUE]
    ELSE [success |-> FALSE, error |-> RequestException(outcome),
          called |-> TRUE]

sync_to_zapier(url, outcome) ==
    IF url = ""
    THEN [success |-> FALSE, error |-> "Zapier webhook URL not configured",
          called |-> FALSE]
    ELSE IF outcome = "ok"
         THEN [success |-> TRUE, error |-> NONE, called |-> TRUE]
         ELSE [success |-> FALSE, error |-> RequestException(outcome),
               called |-> TRUE]

(***************************************************************************)
(* Visitors.                                                               *)
(***************************************************************************)
\* The row INSERT INTO visitors stores (cinc_synced DEFAULT 0, timestamps
\* DEFAULT CURRENT_TIMESTAMP).
VisitorRow(id, visitor, now) ==
    [id |-> id, buyer_name |-> visitor.buyer_name,
     buyer_phone |-> visitor.buyer_phone, buyer_email |-> visitor.buyer_email,
     purchase_timeline |-> visitor.purchase_timeline,
     price_range |-> visitor.price_range,
     capturing_agent_id |-> visitor.capturing_agent_id, site |-> visitor.site,
     created_at |-> now, updated_at |-> now, cinc_synced |-> 0,
     cinc_sync_at |-> NULL]

NoteRow(id, visitor_id, agent_id, note, now) ==
    [id |-> id, visitor_id |-> visitor_id, agent_id |-> agent_id,
     note |-> note, created_at |-> now]

\* vs with the row of id set to row (INSERT or UPDATE).
Stored(vs, id, row) ==
    [i \in DOMAIN vs \cup {id} |-> IF i = id THEN row ELSE vs[i]]

\* vs without the row of id (DELETE).
Removed(vs, id) == [i \in DOMAIN vs \ {id} |-> vs[i]]

mark_synced_flag_only(row, now) == [row EXCEPT !.cinc_synced = 1]

\* UPDATE visitors SET cinc_synced = 1, cinc_sync_at = ? (now) WHERE id = ?
mark_synced(row, now) ==
    [row EXCEPT !.cinc_synced = 1, !.cinc_sync_at = now]

\* POST /visitors
create_visitor(token, visitor, outcome) ==
    /\ Idle
    /\ sqlite_sequence.visitors < MaxVisitors
    /\ sqlite_sequence.visitor_notes < MaxNotes
    /\ LET auth == get_current_user(token, users, clock)
           request == [token |-> token, visitor |-> visitor,
                       outcome |-> outcome]
       IN
       IF ~auth.ok
       THEN /\ last' = Denied("create_visitor", auth, request)
            /\ UNCHANGED visitorVars
       ELSE IF visitor.capturing_agent_id \notin agents
       THEN /\ last' = Response("create_visitor", auth.user, request,
                                "no_agent", 404, "Agent not found", NoBody)
            /\ UNCHANGED visitorVars
       ELSE LET visitor_id == sqlite_sequence.visitors + 1
                note_id == sqlite_sequence.visitor_notes + 1
                zapier_result == sync_to_zapier(webhook_url, outcome)
                inserted == VisitorRow(visitor_id, visitor, clock)
                row == IF zapier_result.success
                       THEN mark_synced(inserted, clock)
                       ELSE inserted
            IN /\ visitors' = Stored(visitors, visitor_id, row)
               /\ IF Truthy(visitor.notes)
                  THEN /\ visitor_notes' = visitor_notes \cup
                              {NoteRow(note_id, visitor_id,
                                       visitor.capturing_agent_id,
                                       visitor.notes, clock)}
                       /\ sqlite_sequence' =
                              [visitors |-> visitor_id,
                               visitor_notes |-> note_id]
                  ELSE /\ UNCHANGED visitor_notes
                       /\ sqlite_sequence' =
                              [sqlite_sequence EXCEPT !.visitors = visitor_id]
               /\ zapier_calls' = IF zapier_result.called
                                  THEN Append(zapier_calls, visitor_id)
                                  ELSE zapier_calls
               /\ last' = Response("create_visitor", auth.user, request,
                                   "created", 200, "",
                                   [id |-> visitor_id,
                                    synced |-> zapier_result.success,
                                    sync_error |-> zapier_result.error])
    /\ UNCHANGED <<inflight, users, agents, webhook_url, clock, tokens>>

\* The enumerations the query parameters are validated against.
SortField == {"created_at", "buyer_name", "site", "updated_at"}
SortOrder == {"asc", "desc"}

\* The conditions list_visitors collects, in the order it appends them.
where_conditions(current_user, q) ==
    (IF current_user.role = "user"
     THEN <<[column |-> "capturing_agent_id",
             param |-> current_user.agent_id]>>
     ELSE <<>>)
    \o (IF q.site # <<>>
        THEN <<[column |-> "site", param |-> q.site]>> ELSE <<>>)
    \o (IF q.search # <<>>
        THEN <<[column |-> "search",
                param |-> <<"%">> \o q.search \o <<"%">>]>>
        ELSE <<>>)
    \o (IF q.date_from # NULL
        THEN <<[column |-> "date_from", param |-> q.date_from]>> ELSE <<>>)
    \o (IF q.date_to # NULL
        THEN <<[column |-> "date_to", param |-> q.date_to]>> ELSE <<>>)
    \o (IF q.purchase_timeline # NONE
        THEN <<[column |-> "purchase_timeline",
                param |-> q.purchase_timeline]>>
        ELSE <<>>)
    \o (IF q.price_range # NONE
        THEN <<[column |-> "price_range", param |-> q.price_range]>>
        ELSE <<>>)
    \o (IF q.cinc_synced # NULL
        THEN <<[column |-> "cinc_synced", param |-> q.cinc_synced]>>
        ELSE <<>>)

\* capturing_agent_id = ? in SQL: never true when the parameter is NULL.
AgentIs(row, agent_id) ==
    agent_id # NULL /\ row.capturing_agent_id = agent_id

\* One collected condition, evaluated by SQLite on a row (a comparison with
\* NULL is not true).
Condition(c, row) ==
    CASE c.column = "capturing_agent_id" -> AgentIs(row, c.param)
      [] c.column = "site" -> row.site = c.param
      [] c.column = "search" ->
            \/ Like(row.buyer_name, c.param)
            \/ Like(row.buyer_phone, c.param)
            \/ row.buyer_email # <<>> /\ Like(row.buyer_email, c.param)
      [] c.column = "date_from" -> Date(row.created_at) >= c.param
      [] c.column = "date_to" -> Date(row.created_at) <= c.param
      [] c.column = "purchase_timeline" ->
            row.purchase_timeline # NONE /\ row.purchase_timeline = c.param
      [] c.column = "price_range" ->
            row.price_range # NONE /\ row.price_range = c.param
      [] c.column = "cinc_synced" -> row.cinc_synced = c.param

where_clause_or(conds, row) ==
    conds = <<>> \/ \E i \in 1..Len(conds) : Condition(conds[i], row)

\* " AND ".join(where_conditions), or 1=1 when there are none.
where_clause(conds, row) ==
    \A i \in 1..Len(conds) : Condition(conds[i], row)

\* ORDER BY column: row a may come before row b.  Any other text that is
\* interpolated as the column orders nothing.
MayPrecede(a, b, sort_by, sort_order) ==
    LET before(x, y) ==
            CASE sort_by = "created_at" -> x.created_at <= y.created_at
              [] sort_by = "updated_at" -> x.updated_at <= y.updated_at
              [] sort_by = "buyer_name" -> ~TextLess(y.buyer_name, x.buyer_name)
              [] sort_by = "site" -> ~TextLess(y.site, x.site)
              [] OTHER -> TRUE
    IN IF sort_order = "asc" THEN before(a, b) ELSE before(b, a)

\* The orders in which SELECT ... ORDER BY may return the rows ids of vs:
\* rows with equal keys come in any order.
OrderBy(vs, ids, sort_by, sort_order) ==
    LET n == Cardinality(ids)
        orders == {p \in [1..n -> ids] :
                     /\ \A i, j \in 1..n : i # j => p[i] # p[j]
                     /\ \A i \in 1..(n - 1) :
                            MayPrecede(vs[p[i]], vs[p[i + 1]],
                                       sort_by, sort_order)}
    IN {[i \in 1..n |-> vs[p[i]]] : p \in orders}

\* LIMIT page_size OFFSET offset
Limit(rows, page_size, offset) ==
    SubSeq(rows, offset + 1,
           IF offset + page_size < Len(rows) THEN offset + page_size
           ELSE Len(rows))

\* The enum parameters as the framework validates them before the handler runs.
list_visitors_unprocessable_any_sort(q) == q.sort_order \notin SortOrder

list_visitors_unprocessable(q) ==
    q.sort_by \notin SortField \/ q.sort_order \notin SortOrder

list_visitors_bad_page(q) == q.page < 1

list_visitors_bad_page_size_no_maximum(q) == q.page_size < 1

list_visitors_bad_page_size(q) == q.page_size < 1 \/ q.page_size > 100

total_pages_rounded_down(total, page_size) == total \div page_size

total_pages(total, page_size) == (total + page_size - 1) \div page_size

\* GET /visitors
list_visitors(token, q) ==
    /\ Idle
    /\ LET auth == get_current_user(token, users, clock)
           request == [token |-> token, query |-> q]
       IN
       IF ~auth.ok
       THEN last' = Denied("list_visitors", auth, request)
       ELSE IF list_visitors_unprocessable(q)
       THEN last' = Response("list_visitors", auth.user, request,
                             "bad_enum", 422, "value is not a valid enumeration member",
                             NoBody)
       ELSE IF list_visitors_bad_page(q)
       THEN last' = Response("list_visitors", auth.user, request, "bad_page",
                             400, "Page must be >= 1", NoBody)
       ELSE IF list_visitors_bad_page_size(q)
       THEN last' = Response("list_visitors", auth.user, request,
                             "bad_page_size", 400,
                             "Page size must be between 1 and 100", NoBody)
       ELSE LET offset == (q.page - 1) * q.page_size
                conds == where_conditions(auth.user, q)
                matched == {id \in DOMAIN visitors :
                              where_clause(conds, visitors[id])}
                total == Cardinality(matched)
            IN \E rows \in OrderBy(visitors, matched, q.sort_by, q.sort_order) :
                 last' = WithRows(
                     Response("list_visitors", auth.user, request, "listed",
                              200, "",
                              [visitors |-> Limit(rows, q.page_size, offset),
                               total |-> total,
                               page |-> q.page,
                               page_size |-> q.page_size,
                               total_pages |->
                                   total_pages(total, q.page_size)]),
                     matched)
    /\ UNCHANGED <<inflight, storeVars, zapier_calls, webhook_url, clock, tokens>>

\* The notes of a visitor that the JOIN with agents keeps.
NotesOf(notes, ags, visitor_id) ==
    {n \in notes : n.visitor_id = visitor_id /\ n.agent_id \in ags}

get_visitor_forbidden(visitor, current_user) ==
    /\ current_user.role = "user"
    /\ visitor.capturing_agent_id # current_user.agent_id

\* GET /visitors/{visitor_id}
get_visitor(token, visitor_id) ==
    /\ Idle
    /\ LET auth == get_current_user(token, users, clock)
           request == [token |-> token, visitor_id |-> visitor_id]
       IN
       IF ~auth.ok
       THEN last' = Denied("get_visitor", auth, request)
       ELSE IF visitor_id \notin DOMAIN visitors
       THEN last' = Response("get_visitor", auth.user, request, "no_visitor",
                             404, "Visitor not found", NoBody)
       ELSE IF get_visitor_forbidden(visitors[visitor_id], auth.user)
       THEN last' = Response("get_visitor", auth.user, request, "not_own",
                             403, "Not authorized to view this visitor",
                             NoBody)
       ELSE last' = Response("get_visitor", auth.user, request, "found",
                             200, "",
                             [visitor |-> visitors[visitor_id],
                              notes |-> NotesOf(visitor_notes, agents,
                                                visitor_id)])
    /\ UNCHANGED <<inflight, storeVars, zapier_calls, webhook_url, clock, tokens>>

\* POST /visitors/{visitor_id}/notes
add_note(token, visitor_id, note) ==
    /\ Idle
    /\ sqlite_sequence.visitor_notes < MaxNotes
    /\ LET auth == get_current_user(token, users, clock)
           request == [token |-> token, visitor_id |-> visitor_id,
                       note |-> note]
       IN
       IF ~auth.ok
       THEN /\ last' = Denied("add_note", auth, request)
            /\ UNCHANGED visitorVars
       ELSE IF visitor_id \notin DOMAIN visitors
       THEN /\ last' = Response("add_note", auth.user, request, "no_visitor",
                                404, "Visitor not found", NoBody)
            /\ UNCHANGED visitorVars
       ELSE LET note_id == sqlite_sequence.visitor_notes + 1 IN
            /\ visitor_notes' = visitor_notes \cup
                   {NoteRow(note_id, visitor_id, note.agent_id, note.note,
                            clock)}
            /\ sqlite_sequence' =
                   [sqlite_sequence EXCEPT !.visitor_notes = note_id]
            /\ visitors' = [visitors EXCEPT ![visitor_id].updated_at = clock]
            /\ UNCHANGED zapier_calls
            /\ last' = Response("add_note", auth.user, request, "added", 200,
                                "", [id |-> note_id, created_at |-> clock])
    /\ UNCHANGED <<inflight, users, agents, webhook_url, clock, tokens>>

delete_visitor_forbidden_owner_ok(current_user) ==
    current_user.role \notin {"admin", "super_admin", "user"}

delete_visitor_forbidden(current_user) ==
    current_user.role \notin {"admin", "super_admin"}

\* DELETE /visitors/{visitor_id}
delete_visitor(token, visitor_id) ==
    /\ Idle
    /\ LET auth == get_current_user(token, users, clock)
           request == [token |-> token, visitor_id |-> visitor_id]
       IN
       IF ~auth.ok
       THEN /\ last' = Denied("delete_visitor", auth, request)
            /\ UNCHANGED visitorVars
       ELSE IF delete_visitor_forbidden(auth.user)
       THEN /\ last' = Response("delete_visitor", auth.user, request,
                                "not_admin", 403,
                                "Only administrators can delete visitors",
                                NoBody)
            /\ UNCHANGED visitorVars
       ELSE IF visitor_id \notin DOMAIN visitors
       THEN /\ last' = Response("delete_visitor", auth.user, request,
                                "no_visitor", 404, "Visitor not found",
                                NoBody)
            /\ UNCHANGED visitorVars
       ELSE /\ visitor_notes' =
                   {n \in visitor_notes : n.visitor_id # visitor_id}
            /\ visitors' = Removed(visitors, visitor_id)
            /\ UNCHANGED <<sqlite_sequence, zapier_calls>>
            /\ last' = Response("delete_visitor", auth.user, request,
                                "deleted", 200, "",
                                [message |-> "Visitor deleted successfully",
                                 visitor_id |-> visitor_id,
                                 visitor_name |->
                                     visitors[visitor_id].buyer_name])
    /\ UNCHANGED <<inflight, users, agents, webhook_url, clock, tokens>>

\* The rows the query of export_visitors_csv selects.
export_visitors_csv_where(current_user, site, row) ==
    IF current_user.role = "user"
    THEN IF site # <<>>
         THEN row.site = site /\ AgentIs(row, current_user.agent_id)
         ELSE AgentIs(row, current_user.agent_id)
    ELSE IF site # <<>> THEN row.site = site ELSE TRUE

\* GET /visitors/export/csv: one line per selected row, with its notes.
export_visitors_csv(token, site) ==
    /\ Idle
    /\ LET auth == get_current_user(token, users, clock)
           request == [token |-> token, site |-> site]
       IN
       IF ~auth.ok
       THEN last' = Denied("export_visitors_csv", auth, request)
       ELSE LET matched == {id \in DOMAIN visitors :
                              export_visitors_csv_where(auth.user, site,
                                                        visitors[id])}
            IN \E rows \in OrderBy(visitors, matched, "created_at", "desc") :
                 last' = WithRows(
                     Response("export_visitors_csv", auth.user, request,
                              "exported", 200, "",
                              [csv |-> [i \in 1..Len(rows) |->
                                          [visitor |-> rows[i],
                                           all_notes |->
                                               NotesOf(visitor_notes, agents,
                                                       rows[i].id)]]]),
                     matched)
    /\ UNCHANGED <<inflight, storeVars, zapier_calls, webhook_url, clock, tokens>>

\* The rows each of the three counts of get_stats counts.
get_stats_counted(current_user, site, vs, now) ==
    LET ids == DOMAIN vs IN
    IF current_user.role = "user"
    THEN IF site # <<>>
         THEN [total_visitors |->
                   {id \in ids : vs[id].site = site
                                 /\ AgentIs(vs[id], current_user.agent_id)},
               today_visitors |->
                   {id \in ids : /\ vs[id].site = site
                                 /\ AgentIs(vs[id], current_user.agent_id)
                                 /\ Date(vs[id].created_at) = Date(now)},
               cinc_synced |->
                   {id \in ids : vs[id].cinc_synced = 1
                                 /\ AgentIs(vs[id], current_user.agent_id)}]
         ELSE [total_visitors |->
                   {id \in ids : AgentIs(vs[id], current_user.agent_id)},
               today_visitors |->
                   {id \in ids : /\ AgentIs(vs[id], current_user.agent_id)
                                 /\ Date(vs[id].created_at) = Date(now)},
               cinc_synced |->
                   {id \in ids : vs[id].cinc_synced = 1
                                 /\ AgentIs(vs[id], current_user.agent_id)}]
    ELSE IF site # <<>>
         THEN [total_visitors |-> {id \in ids : vs[id].site = site},
               today_visitors |->
                   {id \in ids : /\ vs[id].site = site
                                 /\ Date(vs[id].created_at) = Date(now)},
               cinc_synced |-> {id \in ids : vs[id].cinc_synced = 1}]
         ELSE [total_visitors |-> ids,
               today_visitors |->
                   {id \in ids : Date(vs[id].created_at) = Date(now)},
               cinc_synced |-> {id \in ids : vs[id].cinc_synced = 1}]

\* GET /stats
get_stats(token, site) ==
    /\ Idle
    /\ LET auth == get_current_user(token, users, clock)
           request == [token |-> token, site |-> site]
       IN
       IF ~auth.ok
       THEN last' = Denied("get_stats", auth, request)
       ELSE LET counted == get_stats_counted(auth.user, site, visitors, clock)
            IN last' = WithRows(
                   Response("get_stats", auth.user, request, "counted", 200,
                            "",
                            [total_visitors |->
                                 Cardinality(counted.total_visitors),
                             today_visitors |->
                                 Cardinality(counted.today_visitors),
                             cinc_synced |->
                                 Cardinality(counted.cinc_synced)]),
                   counted)
    /\ UNCHANGED <<inflight, storeVars, zapier_calls, webhook_url, clock, tokens>>

(***************************************************************************)
(* Requests in steps.  The handlers above run a request in one step; here  *)
(* a request runs statement by statement in a worker, next to the request  *)
(* of the other worker.  Each request has its own connection (get_db).     *)
(* A SELECT reads what is committed when it runs.  The first INSERT,       *)
(* UPDATE or DELETE of a connection opens a transaction and takes the      *)
(* database's write lock, which the commit at the exit of get_db gives     *)
(* back; a statement that finds the lock taken waits for it, and fails     *)
(* with "database is locked" when the wait exceeds the connection's        *)
(* timeout.  The rows a transaction has written and not committed are in   *)
(* the request's tx and in no table.                                       *)
(***************************************************************************)
Workers == {"w1", "w2"}

NoRequest == [op |-> "none", pc |-> "idle"]

\* The workers whose connection holds the write lock.
Writers == {w \in Workers : inflight[w].pc \in {"post", "await", "commit"}}

\* The unhandled exception of a handler: get_db rolls back and the
\* framework answers 500.
InternalServerError(op, caller, request, cause) ==
    Response(op, caller, request, cause, 500, "Internal Server Error", NoBody)

\* create_visitor up to its INSERT: get_current_user and the agent lookup.
create_visitor_begin(w, token, visitor) ==
    /\ inflight[w] = NoRequest
    /\ sqlite_sequence.visitors
         + Cardinality({v \in Workers : inflight[v].op = "create_visitor"})
         < MaxVisitors
    /\ Len(zapier_calls)
         + Cardinality({v \in Workers : inflight[v].op = "create_visitor"})
         < MaxVisitors
    /\ sqlite_sequence.visitor_notes
         + Cardinality({v \in Workers : inflight[v].op = "create_visitor"})
         < MaxNotes
    /\ LET auth == get_current_user(token, users, clock)
           request == [token |-> token, visitor |-> visitor]
       IN
       IF ~auth.ok
       THEN /\ Idle
            /\ last' = Denied("create_visitor", auth, request)
            /\ UNCHANGED inflight
       ELSE IF visitor.capturing_agent_id \notin agents
       THEN /\ Idle
            /\ last' = Response("create_visitor", auth.user, request,
                                "no_agent", 404, "Agent not found", NoBody)
            /\ UNCHANGED inflight
       ELSE /\ inflight' = [inflight EXCEPT ![w] =
                   [op |-> "create_visitor", pc |-> "insert",
                    caller |-> auth.user, request |-> request]]
            /\ UNCHANGED last
    /\ UNCHANGED <<storeVars, zapier_calls, webhook_url, clock, tokens>>

\* INSERT INTO visitors and the initial note, in a transaction that stays
\* open: the lock is free.
create_visitor_insert(w) ==
    /\ inflight[w].op = "create_visitor"
    /\ inflight[w].pc = "insert"
    /\ Writers = {}
    /\ LET visitor == inflight[w].request.visitor
           visitor_id == sqlite_sequence.visitors + 1
           note_id == sqlite_sequence.visitor_notes + 1
           noted == Truthy(visitor.notes)
       IN inflight' = [inflight EXCEPT ![w] =
              [op |-> "create_visitor", pc |-> "post",
               caller |-> inflight[w].caller,
               request |-> inflight[w].request,
               visitor_id |-> visitor_id,
               tx |-> [visitors |->
                           Stored(visitors, visitor_id,
                                  VisitorRow(visitor_id, visitor, clock)),
                       visitor_notes |->
                           IF noted
                           THEN visitor_notes \cup
                                  {NoteRow(note_id, visitor_id,
                                           visitor.capturing_agent_id,
                                           visitor.notes, clock)}
                           ELSE visitor_notes,
                       sqlite_sequence |->
                           [visitors |-> visitor_id,
                            visitor_notes |->
                                IF noted THEN note_id
                                ELSE sqlite_sequence.visitor_notes]]]]
    /\ UNCHANGED <<storeVars, zapier_calls, webhook_url, clock, tokens, last>>

\* The INSERT has waited for the lock longer than the connection's timeout:
\* sqlite3.OperationalError, which no handler catches.
create_visitor_locked(w) ==
    /\ inflight[w].op = "create_visitor"
    /\ inflight[w].pc = "insert"
    /\ Writers # {}
    /\ Idle
    /\ last' = InternalServerError("create_visitor", inflight[w].caller,
                                   inflight[w].request, "database_locked")
    /\ inflight' = [inflight EXCEPT ![w] = NoRequest]
    /\ UNCHANGED <<storeVars, zapier_calls, webhook_url, clock, tokens>>

\* sync_to_zapier up to requests.post: the POST leaves, unless no URL is
\* configured.
create_visitor_post(w) ==
    /\ inflight[w].op = "create_visitor"
    /\ inflight[w].pc = "post"
    /\ zapier_calls' =
           IF sync_to_zapier(webhook_url, "ok").called
           THEN Append(zapier_calls, inflight[w].visitor_id)
           ELSE zapier_calls
    /\ inflight' = [inflight EXCEPT ![w].pc = "await"]
    /\ UNCHANGED <<storeVars, webhook_url, clock, tokens, last>>

\* requests.post ends with outcome; on success the UPDATE of cinc_synced.
create_visitor_result(w, outcome) ==
    /\ inflight[w].op = "create_visitor"
    /\ inflight[w].pc = "await"
    /\ LET zapier_result == sync_to_zapier(webhook_url, outcome)
           visitor_id == inflight[w].visitor_id
           tx == inflight[w].tx
       IN inflight' = [inflight EXCEPT ![w] =
              [op |-> "create_visitor", pc |-> "commit",
               caller |-> inflight[w].caller,
               request |-> inflight[w].request,
               visitor_id |-> visitor_id,
               zapier_result |-> zapier_result,
               tx |-> IF zapier_result.success
                      THEN [tx EXCEPT
                              !.visitors[visitor_id] =
                                  mark_synced(tx.visitors[visitor_id], clock)]
                      ELSE tx]]
    /\ UNCHANGED <<storeVars, zapier_calls, webhook_url, clock, tokens, last>>

\* The handler returns and get_db commits.
create_visitor_commit(w) ==
    /\ inflight[w].op = "create_visitor"
    /\ inflight[w].pc = "commit"
    /\ Idle
    /\ visitors' = inflight[w].tx.visitors
    /\ visitor_notes' = inflight[w].tx.visitor_notes
    /\ sqlite_sequence' = inflight[w].tx.sqlite_sequence
    /\ last' = Response("create_visitor", inflight[w].caller,
                        inflight[w].request, "created", 200, "",
                        [id |-> inflight[w].visitor_id,
                         synced |-> inflight[w].zapier_result.success,
                         sync_error |-> inflight[w].zapier_result.error])
    /\ inflight' = [inflight EXCEPT ![w] = NoRequest]
    /\ UNCHANGED <<users, agents, zapier_calls, webhook_url, clock, tokens>>

\* create_user up to its INSERT: the role tests, the SELECT of the username
\* and the agent lookup.
create_user_begin(w, token, user) ==
    /\ inflight[w] = NoRequest
    /\ LET auth == get_current_admin_user(token, users, clock)
           request == [token |-> token, user |-> user]
       IN
       IF ~auth.ok
       THEN /\ Idle
            /\ last' = Denied("create_user", auth, request)
            /\ UNCHANGED inflight
       ELSE LET r == create_user_body(user, auth.user, users, agents) IN
            IF r.status # 200
            THEN /\ Idle
                 /\ last' = Response("create_user", auth.user, request,
                                     r.cause, r.status, r.detail, NoBody)
                 /\ UNCHANGED inflight
            ELSE /\ inflight' = [inflight EXCEPT ![w] =
                        [op |-> "create_user", pc |-> "insert",
                         caller |-> auth.user, request |-> request]]
                 /\ UNCHANGED last
    /\ UNCHANGED <<storeVars, zapier_calls, webhook_url, clock, tokens>>

\* INSERT INTO users, then the return and the commit.  username is UNIQUE:
\* the INSERT of a name that has been committed since the SELECT raises
\* sqlite3.IntegrityError, which create_user does not catch.
create_user_insert(w) ==
    /\ inflight[w].op = "create_user"
    /\ inflight[w].pc = "insert"
    /\ Writers = {}
    /\ Idle
    /\ LET user == inflight[w].request.user
           r == create_user_body(user, inflight[w].caller, users, agents)
       IN
       IF UsersNamed(users, user.username) # {}
       THEN /\ last' = InternalServerError("create_user", inflight[w].caller,
                                           inflight[w].request,
                                           "integrity_error")
            /\ UNCHANGED users
       ELSE /\ last' = Response("create_user", inflight[w].caller,
                                inflight[w].request, r.cause, r.status,
                                r.detail, r.body)
            /\ users' = r.users
    /\ inflight' = [inflight EXCEPT ![w] = NoRequest]
    /\ UNCHANGED <<agents, visitorVars, webhook_url, clock, tokens>>

create_user_locked(w) ==
    /\ inflight[w].op = "create_user"
    /\ inflight[w].pc = "insert"
    /\ Writers # {}
    /\ Idle
    /\ last' = InternalServerError("create_user", inflight[w].caller,
                                   inflight[w].request, "database_locked")
    /\ inflight' = [inflight EXCEPT ![w] = NoRequest]
    /\ UNCHANGED <<storeVars, zapier_calls, webhook_url, clock, tokens>>

\* list_visitors up to its first fetch: the validation and the count query.
list_visitors_count(w, token, q) ==
    /\ inflight[w] = NoRequest
    /\ LET auth == get_current_user(token, users, clock)
           request == [token |-> token, query |-> q]
       IN
       IF ~auth.ok
       THEN /\ Idle
            /\ last' = Denied("list_visitors", auth, request)
            /\ UNCHANGED inflight
       ELSE IF list_visitors_unprocessable(q)
       THEN /\ Idle
            /\ last' = Response("list_visitors", auth.user, request,
                                "bad_enum", 422,
                                "value is not a valid enumeration member",
                                NoBody)
            /\ UNCHANGED inflight
       ELSE IF list_visitors_bad_page(q)
       THEN /\ Idle
            /\ last' = Response("list_visitors", auth.user, request,
                                "bad_page", 400, "Page must be >= 1", NoBody)
            /\ UNCHANGED inflight
       ELSE IF list_visitors_bad_page_size(q)
       THEN /\ Idle
            /\ last' = Response("list_visitors", auth.user, request,
                                "bad_page_size", 400,
                                "Page size must be between 1 and 100", NoBody)
            /\ UNCHANGED inflight
       ELSE LET conds == where_conditions(auth.user, q) IN
            /\ inflight' = [inflight EXCEPT ![w] =
                   [op |-> "list_visitors", pc |-> "page",
                    caller |-> auth.user, request |-> request,
                    total |-> Cardinality(
                        {id \in DOMAIN visitors :
                           where_clause(conds, visitors[id])})]]
            /\ UNCHANGED last
    /\ UNCHANGED <<storeVars, zapier_calls, webhook_url, clock, tokens>>

\* The page query, on what is committed now, and the return.
list_visitors_page(w) ==
    /\ inflight[w].op = "list_visitors"
    /\ inflight[w].pc = "page"
    /\ Idle
    /\ LET q == inflight[w].request.query
           total == inflight[w].total
           offset == (q.page - 1) * q.page_size
           conds == where_conditions(inflight[w].caller, q)
           matched == {id \in DOMAIN visitors :
                         where_clause(conds, visitors[id])}
       IN \E rows \in OrderBy(visitors, matched, q.sort_by, q.sort_order) :
            last' = WithRows(
                Response("list_visitors", inflight[w].caller,
                         inflight[w].request, "listed", 200, "",
                         [visitors |-> Limit(rows, q.page_size, offset),
                          total |-> total,
                          page |-> q.page,
                          page_size |-> q.page_size,
                          total_pages |-> total_pages(total, q.page_size)]),
                matched)
    /\ inflight' = [inflight EXCEPT ![w] = NoRequest]
    /\ UNCHANGED <<storeVars, zapier_calls, webhook_url, clock, tokens>>

\* INSERT INTO visitor_notes replacing the notes the visitor already has.
insert_note_replacing(notes, row) ==
    {n \in notes : n.visitor_id # row.visitor_id} \cup {row}

\* INSERT INTO visitor_notes (visitor_id, agent_id, note): a new row; no
\* connection turns foreign key enforcement on, so visitor_id is not
\* checked against visitors.
insert_note(notes, row) == notes \cup {row}

\* add_note up to its INSERT: get_current_user and the SELECT of the visitor.
add_note_begin(w, token, visitor_id, note) ==
    /\ inflight[w] = NoRequest
    /\ sqlite_sequence.visitor_notes
         + Cardinality({v \in Workers : inflight[v].op = "add_note"})
         < MaxNotes
    /\ LET auth == get_current_user(token, users, clock)
           request == [token |-> token, visitor_id |-> visitor_id,
                       note |-> note]
       IN
       IF ~auth.ok
       THEN /\ Idle
            /\ last' = Denied("add_note", auth, request)
            /\ UNCHANGED inflight
       ELSE IF visitor_id \notin DOMAIN visitors
       THEN /\ Idle
            /\ last' = Response("add_note", auth.user, request, "no_visitor",
                                404, "Visitor not found", NoBody)
            /\ UNCHANGED inflight
       ELSE /\ inflight' = [inflight EXCEPT ![w] =
                   [op |-> "add_note", pc |-> "insert",
                    caller |-> auth.user, request |-> request]]
            /\ UNCHANGED last
    /\ UNCHANGED <<storeVars, zapier_calls, webhook_url, clock, tokens>>

\* The INSERT of the note, the UPDATE of updated_at (of no row when the
\* visitor is gone), the return and the commit, once the write lock is free.
add_note_insert(w) ==
    /\ inflight[w].op = "add_note"
    /\ inflight[w].pc = "insert"
    /\ Writers = {}
    /\ Idle
    /\ LET request == inflight[w].request
           visitor_id == request.visitor_id
           note_id == sqlite_sequence.visitor_notes + 1
       IN
       /\ visitor_notes' =
              insert_note(visitor_notes,
                          NoteRow(note_id, visitor_id, request.note.agent_id,
                                  request.note.note, clock))
       /\ sqlite_sequence' =
              [sqlite_sequence EXCEPT !.visitor_notes = note_id]
       /\ visitors' =
              IF visitor_id \in DOMAIN visitors
              THEN [visitors EXCEPT ![visitor_id].updated_at = clock]
              ELSE visitors
       /\ last' = Response("add_note", inflight[w].caller, request, "added",
                           200, "", [id |-> note_id, created_at |-> clock])
    /\ inflight' = [inflight EXCEPT ![w] = NoRequest]
    /\ UNCHANGED <<users, agents, zapier_calls, webhook_url, clock, tokens>>

\* delete_visitor, whose DELETEs and commit follow each other at once, when
\* the lock is free.
delete_visitor_unlocked(token, visitor_id) ==
    /\ Writers = {}
    /\ delete_visitor(token, visitor_id)

\* The process stops with requests in flight: their connections are gone
\* and what they had not committed is rolled back.
Crash ==
    /\ \E w \in Workers : inflight[w] # NoRequest
    /\ inflight' = [w \in Workers |-> NoRequest]
    /\ UNCHANGED <<storeVars, zapier_calls, webhook_url, clock, tokens, last>>

(***************************************************************************)
(* Analytics: GET /analytics.                                              *)
(***************************************************************************)
\* The permutations of the finite set S in which every element may come
\* before its successor (ORDER BY; without one, any order).
Orderings(S, MayComeBefore(_, _)) ==
    LET n == Cardinality(S) IN
    {p \in [1..n -> S] :
        /\ \A i, j \in 1..n : i # j => p[i] # p[j]
        /\ \A i \in 1..(n - 1) : MayComeBefore(p[i], p[i + 1])}

\* SELECT key, COUNT(*) ... GROUP BY key over the rows ids of vs.
GroupCount(vs, ids, Key(_)) ==
    {[key |-> k, count |-> Cardinality({id \in ids : Key(vs[id]) = k})] :
        k \in {Key(vs[id]) : id \in ids}}

\* "row[...] or 'Unknown'"
OrUnknown(value) == IF value = NONE THEN "Unknown" ELSE value

get_analytics_where_any_agent(current_user, site, row) ==
    site # <<>> => row.site = site

\* where_clause and params of get_analytics, on a row of visitors.
get_analytics_where(current_user, site, row) ==
    IF current_user.role = "user"
    THEN /\ AgentIs(row, current_user.agent_id)
         /\ site # <<>> => row.site = site
    ELSE site # <<>> => row.site = site

\* Where the first quote character of text is (0: nowhere).
FirstQuote(text) ==
    IF \E k \in 1..Len(text) : text[k] = "'"
    THEN CHOOSE k \in 1..Len(text) :
            text[k] = "'" /\ \A j \in 1..(k - 1) : text[j] # "'"
    ELSE 0

\* The text  OR '1'='1  which, put after a quote, completes the condition
\* site = '...' OR '1'='1'.
OrAlwaysTrue == <<" ", "O", "R", " ", "'", "1", "'", "=", "'", "1">>

\* agent_where = f"WHERE site = '{site}'" as SQLite reads it: the string
\* literal ends at the first quote of site.  Without a quote the condition
\* compares with site; with OrAlwaysTrue after the quote it is true of every
\* row; with letters after the quote the statement is not SQL.
agent_where(site) ==
    LET k == FirstQuote(site) IN
    IF k = 0
    THEN [syntax_error |-> FALSE, literal |-> site, always |-> FALSE]
    ELSE IF SubSeq(site, k + 1, Len(site)) = OrAlwaysTrue
    THEN [syntax_error |-> FALSE, literal |-> SubSeq(site, 1, k - 1),
          always |-> TRUE]
    ELSE [syntax_error |-> TRUE, literal |-> SubSeq(site, 1, k - 1),
          always |-> FALSE]

\* agents a LEFT JOIN visitors v ON a.id = v.capturing_agent_id {agent_where}
\* GROUP BY a.id, a.name with COUNT(v.id): an agent without a visitor gives
\* one row of NULLs, which a condition on site drops unless it is always
\* true.  The agent's id stands for its name.
leads_by_agent_counts(vs, ags, site) ==
    LET cond == agent_where(site)
        of(a) == {id \in DOMAIN vs :
                    /\ vs[id].capturing_agent_id = a
                    /\ site # <<>>
                         => (cond.always \/ vs[id].site = cond.literal)}
        kept == {a \in ags :
                    \/ of(a) # {}
                    \/ /\ \A id \in DOMAIN vs : vs[id].capturing_agent_id # a
                       /\ site = <<>> \/ cond.always}
    IN {[agent_name |-> a, count |-> Cardinality(of(a))] : a \in kept}

\* The statement of leads_by_agent cannot be prepared: the interpolated
\* site leaves it malformed, or site names a column of both joined tables
\* (agents has a site column in the schema create_agent writes to, none in
\* the one migrate_agents_sites.py leaves).
leads_by_agent_fails(current_user, site, agents_have_site) ==
    /\ current_user.role \in {"admin", "super_admin"}
    /\ site # <<>>
    /\ agent_where(site).syntax_error \/ agents_have_site

\* GET /analytics
get_analytics(token, site, agents_have_site) ==
    /\ Idle
    /\ LET auth == get_current_user(token, users, clock)
           request == [token |-> token, site |-> site]
       IN
       IF ~auth.ok
       THEN last' = Denied("get_analytics", auth, request)
       ELSE IF leads_by_agent_fails(auth.user, site, agents_have_site)
       THEN last' = InternalServerError("get_analytics", auth.user, request,
                                        "operational_error")
       ELSE LET matched == {id \in DOMAIN visitors :
                              get_analytics_where(auth.user, site,
                                                  visitors[id])}
                ByDay(row) == Date(row.created_at)
                ByTimeline(row) == row.purchase_timeline
                ByPrice(row) == row.price_range
                BySite(row) == row.site
                Latest(a, b) == a.key >= b.key
                AnyOrder(a, b) == TRUE
                Largest(a, b) == a.count >= b.count
            IN
            \E by_day \in Orderings(GroupCount(visitors, matched, ByDay),
                                    Latest),
               by_timeline \in Orderings(
                   GroupCount(visitors, matched, ByTimeline), AnyOrder),
               by_price \in Orderings(
                   GroupCount(visitors, matched, ByPrice), AnyOrder),
               by_site \in Orderings(GroupCount(visitors, matched, BySite),
                                     Largest),
               by_agent \in Orderings(
                   IF auth.user.role \in {"admin", "super_admin"}
                   THEN leads_by_agent_counts(visitors, agents, site)
                   ELSE {}, Largest) :
              last' = WithRows(
                  Response("get_analytics", auth.user, request, "analysed",
                      200, "",
                      [leads_by_day |->
                           [i \in 1..Len(Limit(by_day, 30, 0)) |->
                              [date |-> by_day[i].key,
                               count |-> by_day[i].count]],
                       leads_by_timeline |->
                           [i \in 1..Len(by_timeline) |->
                              [timeline |-> OrUnknown(by_timeline[i].key),
                               count |-> by_timeline[i].count]],
                       leads_by_price |->
                           [i \in 1..Len(by_price) |->
                              [price_range |-> OrUnknown(by_price[i].key),
                               count |-> by_price[i].count]],
                       leads_by_site |->
                           [i \in 1..Len(by_site) |->
                              [site |-> by_site[i].key,
                               count |-> by_site[i].count]],
                       leads_by_agent |-> by_agent,
                       sync_stats |->
                           [synced |-> Cardinality(
                                {id \in matched :
                                   visitors[id].cinc_synced = 1}),
                            not_synced |-> Cardinality(
                                {id \in matched :
                                   visitors[id].cinc_synced = 0})]]),
                  matched)
    /\ UNCHANGED <<inflight, storeVars, zapier_calls, webhook_url, clock, tokens>>

(***************************************************************************)
(* The store after startup_event: schema.sql applied and                   *)
(* initialize_super_admin run on an empty users table.                     *)
(***************************************************************************)
initialize_super_admin ==
    <<[id |-> 1, username |-> SUPER_ADMIN_USERNAME,
       password_hash |-> get_password_hash(SUPER_ADMIN_PASSWORD),
       email |-> SUPER_ADMIN_EMAIL, role |-> "super_admin", agent_id |-> NULL,
       active |-> 1, last_login |-> NULL]>>

\* The agent directory (reference data, written by POST /agents and the import
\* scripts): two agents.
AgentDirectory == {1, 2}

EmptyVisitors == [id \in {} |-> NoBody]

InitStore ==
    /\ agents = AgentDirectory
    /\ visitors = EmptyVisitors
    /\ visitor_notes = {}
    /\ sqlite_sequence = [visitors |-> 0, visitor_notes |-> 0]
    /\ zapier_calls = <<>>
    /\ last = NoResponse
    /\ inflight = [w \in Workers |-> NoRequest]

(***************************************************************************)
(* Inputs.                                                                 *)
(***************************************************************************)
Usernames == {SUPER_ADMIN_USERNAME, "alice"}
LoginNames == Usernames \cup {"mallory"}
Passwords == {SUPER_ADMIN_PASSWORD, "alice-pw-1"}
AgentIdInputs == {NULL, 1, 3}
UserIdInputs == 1..3

\* A token signed with a key that is not the server's.
ForgedToken ==
    [sub |-> SUPER_ADMIN_USERNAME,
     exp |-> (MaxTicks + 2) * ACCESS_TOKEN_EXPIRE_MINUTES, key |-> "attacker-key"]

TokenInputs == tokens \cup {ForgedToken}

UserCreateInputs ==
    [username : Usernames, password : {"alice-pw-1"}, email : {NONE},
     role : UserRole, agent_id : AgentIdInputs]

\* Role, agent and active changes in every combination (all absent included).
UserUpdateInputs ==
    [email : {NONE}, password : {NONE}, role : UserRole \cup {NONE},
     agent_id : AgentIdInputs, active : {NULL, 0, 1}]

\* Credential and contact changes.
CredentialUpdateInputs ==
    [email : {NONE, "alice@example.com"}, password : {NONE, "new-pass-9"},
     role : {NONE}, agent_id : {NULL}, active : {NULL}]

(***************************************************************************)
(* Spec: user administration and login on a fresh deployment.              *)
(***************************************************************************)
Init ==
    /\ InitStore
    /\ users = initialize_super_admin
    /\ webhook_url = ""
    /\ clock = 0
    /\ tokens = {}

Next ==
    \/ \E u \in LoginNames, p \in Passwords : login(u, p)
    \/ \E t \in TokenInputs : read_users_me(t)
    \/ \E t \in TokenInputs, u \in UserCreateInputs : create_user(t, u)
    \/ \E t \in TokenInputs : list_users(t)
    \/ \E t \in TokenInputs, id \in UserIdInputs, u \in UserUpdateInputs :
          update_user(t, id, u)
    \/ \E t \in TokenInputs, id \in UserIdInputs : delete_user(t, id)
    \/ SendResponse

Spec == Init /\ [][Next]_vars


(***************************************************************************)
(* SpecAuth: sessions over time.  The deployment has been used: the        *)
(* super_admin has logged in and created the account alice.                *)
(***************************************************************************)
AliceCreate(role, agent_id) ==
    [username |-> "alice", password |-> "alice-pw-1", email |-> NONE,
     role |-> role, agent_id |-> agent_id]

\* The users table after the super_admin's login at time 0 and its create_user.
UsersWithAlice(role, agent_id) ==
    LET auth == authenticate_user(initialize_super_admin, SUPER_ADMIN_USERNAME,
                                  SUPER_ADMIN_PASSWORD, 0)
    IN create_user_body(AliceCreate(role, agent_id), auth.user, auth.users,
                        AgentDirectory).users

SuperAdminToken ==
    create_access_token(SUPER_ADMIN_USERNAME, 0, ACCESS_TOKEN_EXPIRE_MINUTES)

\* Activation and deactivation alone.
ActiveUpdateInputs ==
    [email : {NONE}, password : {NONE}, role : {NONE}, agent_id : {NULL},
     active : {0, 1}]

\* A password change alone.
PasswordUpdateInputs ==
    [email : {NONE}, password : {"new-pass-9"}, role : {NONE},
     agent_id : {NULL}, active : {NULL}]

InitAuth ==
    /\ InitStore
    /\ users = UsersWithAlice("user", 1)
    /\ webhook_url = ""
    /\ clock = 0
    /\ tokens = {SuperAdminToken}

NextAuth ==
    \/ \E u \in LoginNames, p \in Passwords : login(u, p)
    \/ \E t \in TokenInputs : read_users_me(t)
    \/ \E t \in TokenInputs, id \in UserIdInputs,
          u \in ActiveUpdateInputs \cup PasswordUpdateInputs :
          update_user(t, id, u)
    \/ \E t \in TokenInputs, id \in UserIdInputs : delete_user(t, id)
    \/ Tick
    \/ SendResponse

SpecAuth == InitAuth /\ [][NextAuth]_vars

(***************************************************************************)
(* SpecVisitors: leads captured, read, counted and deleted while the       *)
(* account alice is moved between roles and agents.  alice was created as  *)
(* an admin without an agent; the super_admin and alice have logged in at  *)
(* time 0 and keep the tokens they got.                                    *)
(***************************************************************************)
ZAPIER_WEBHOOK_URL == "https://hooks.zapier.com/hooks/catch/1/abc"

SiteOak == <<"a", "1">>
SiteElm == <<"b", "1">>

\* Validated VisitorCreate payloads: two leads of agents 1 and 2, and one
\* naming an agent the directory does not hold.
AnnVisit ==
    [buyer_name |-> <<"A", "n", "n">>,
     buyer_phone |-> <<"5", "5", "5", "0", "1", "0", "0", "0", "0", "1">>,
     buyer_email |-> <<>>, purchase_timeline |-> "0-3 months",
     price_range |-> NONE, capturing_agent_id |-> 1, site |-> SiteOak,
     notes |-> NONE]

BobVisit ==
    [buyer_name |-> <<"b", "o", "b">>,
     buyer_phone |-> <<"5", "5", "5", "0", "1", "0", "0", "0", "0", "5">>,
     buyer_email |-> <<"b", "@", "x", ".", "c", "o">>,
     purchase_timeline |-> NONE, price_range |-> "$500k+",
     capturing_agent_id |-> 2, site |-> SiteElm, notes |-> "call back"]

GhostVisit == [AnnVisit EXCEPT !.capturing_agent_id = 3]

VisitorCreateInputs == {AnnVisit, BobVisit, GhostVisit}

VisitorIdInputs == 1..(MaxVisitors + 1)

SiteInputs == {<<>>, SiteOak}

\* The query list_visitors runs when no parameter is given.
DefaultQuery ==
    [page |-> 1, page_size |-> 50, site |-> <<>>, search |-> <<>>,
     sort_by |-> "created_at", sort_order |-> "desc", date_from |-> NULL,
     date_to |-> NULL, purchase_timeline |-> NONE, price_range |-> NONE,
     cinc_synced |-> NULL]

\* Every combination of the site, search, date, timeline, price and synced
\* filters, each absent or given.
FilterQueries ==
    {[DefaultQuery EXCEPT !.site = site, !.search = search,
                          !.date_from = day, !.date_to = day,
                          !.purchase_timeline = purchase_timeline,
                          !.price_range = price_range,
                          !.cinc_synced = cinc_synced] :
        site \in SiteInputs, search \in {<<>>, <<"B">>}, day \in {NULL, 0},
        purchase_timeline \in {NONE, "0-3 months"},
        price_range \in {NONE, "$500k+"}, cinc_synced \in {NULL, 0}}

\* Every sort on pages of one row, pages of two rows, and the pages and
\* sizes out of range.
PageQueries ==
    {[DefaultQuery EXCEPT !.page = page, !.page_size = 1,
                          !.sort_by = sort_by, !.sort_order = sort_order] :
        page \in {1, 2}, sort_by \in SortField, sort_order \in SortOrder}
    \cup {[DefaultQuery EXCEPT !.page = page, !.page_size = 2] :
             page \in {1, 2}}
    \cup {[DefaultQuery EXCEPT !.page = 0],
          [DefaultQuery EXCEPT !.page_size = 0],
          [DefaultQuery EXCEPT !.page_size = 101],
          [DefaultQuery EXCEPT !.page = 0, !.page_size = 0]}

\* Sort parameters that are no member of their enumeration.
UnprocessableQueries ==
    {[DefaultQuery EXCEPT !.sort_by = "capturing_agent_id"],
     [DefaultQuery EXCEPT !.sort_by = "id; DROP TABLE visitors"],
     [DefaultQuery EXCEPT !.sort_order = "random()"],
     [DefaultQuery EXCEPT !.sort_by = "id", !.page = 0]}

\* Search terms made of the characters LIKE reads as wildcards.
WildcardQueries ==
    {[DefaultQuery EXCEPT !.search = search] : search \in {<<"_">>, <<"%">>}}

ListQueries ==
    FilterQueries \cup PageQueries \cup UnprocessableQueries
        \cup WildcardQueries

\* The users table when the tokens were issued: after alice's login at time 0.
UsersAtLogin ==
    authenticate_user(UsersWithAlice("admin", NULL), "alice", "alice-pw-1",
                      0).users

AliceToken == create_access_token("alice", 0, ACCESS_TOKEN_EXPIRE_MINUTES)

\* A change of role, of agent, or of both.
RoleUpdateInputs ==
    [email : {NONE}, password : {NONE}, role : {NONE, "user", "admin"},
     agent_id : {NULL, 2}, active : {NULL}]
    \ {[email |-> NONE, password |-> NONE, role |-> NONE, agent_id |-> NULL,
        active |-> NULL]}

InitVisitors ==
    /\ InitStore
    /\ users = UsersAtLogin
    /\ tokens = {SuperAdminToken, AliceToken}
    /\ webhook_url = ZAPIER_WEBHOOK_URL
    /\ clock = 0

NextVisitors ==
    \/ \E t \in TokenInputs, u \in RoleUpdateInputs : update_user(t, 2, u)
    \/ \E t \in TokenInputs : list_users(t)
    \/ \E t \in TokenInputs, v \in VisitorCreateInputs, o \in SyncOutcomes :
          create_visitor(t, v, o)
    \/ \E t \in tokens, q \in ListQueries : list_visitors(t, q)
    \/ list_visitors(ForgedToken, DefaultQuery)
    \/ \E t \in TokenInputs, id \in VisitorIdInputs : get_visitor(t, id)
    \/ \E t \in TokenInputs, id \in VisitorIdInputs : delete_visitor(t, id)
    \/ \E t \in TokenInputs, s \in SiteInputs : export_visitors_csv(t, s)
    \/ \E t \in TokenInputs, s \in SiteInputs : get_stats(t, s)
    \/ SendResponse

SpecVisitors == InitVisitors /\ [][NextVisitors]_vars

(***************************************************************************)
(* SpecLeads: leads and notes created and deleted by the super_admin, with *)
(* the webhook configured or not, and requests that name agents, users     *)
(* and visitors that are not stored.                                       *)
(***************************************************************************)
\* A second account, for an agent of the directory or for agent 3, which
\* the directory does not hold.
BobCreateInputs ==
    [username : {"bob"}, password : {"bob-pw-22"}, email : {NONE},
     role : {"user"}, agent_id : {2, 3}]

\* A change of agent alone.
AgentUpdateInputs ==
    [email : {NONE}, password : {NONE}, role : {NONE}, agent_id : {2, 3},
     active : {NULL}]

\* Validated NoteCreate payloads.
NoteInputs == [agent_id : {1}, note : {"left a voicemail"}]

LeadOutcomes == {"ok", "timeout"}

InitLeads ==
    /\ InitStore
    /\ users = UsersWithAlice("user", 1)
    /\ tokens = {SuperAdminToken}
    /\ webhook_url \in {"", ZAPIER_WEBHOOK_URL}
    /\ clock = 0

NextLeads ==
    \/ \E t \in TokenInputs, u \in BobCreateInputs : create_user(t, u)
    \/ \E t \in TokenInputs, id \in {2, 3}, u \in AgentUpdateInputs :
          update_user(t, id, u)
    \/ \E t \in TokenInputs, v \in {AnnVisit, GhostVisit}, o \in LeadOutcomes :
          create_visitor(t, v, o)
    \/ \E t \in TokenInputs, id \in VisitorIdInputs, n \in NoteInputs :
          add_note(t, id, n)
    \/ \E t \in TokenInputs, id \in VisitorIdInputs : get_visitor(t, id)
    \/ \E t \in TokenInputs, id \in VisitorIdInputs : delete_visitor(t, id)
    \/ SendResponse

SpecLeads == InitLeads /\ [][NextLeads]_vars

(***************************************************************************)
(* Concurrent requests: two workers run create_visitor, create_user and    *)
(* list_visitors step by step, deletions happen in between, and the        *)
(* process may stop at any step.  alice is agent 1's user, the super       *)
(* administrator holds a session, the webhook is configured.               *)
(***************************************************************************)
PagedQuery == [DefaultQuery EXCEPT !.page_size = 1]

WorkerQueries == {DefaultQuery, PagedQuery}

InitWorkers ==
    /\ InitStore
    /\ users = UsersWithAlice("user", 1)
    /\ tokens = {SuperAdminToken}
    /\ webhook_url = ZAPIER_WEBHOOK_URL
    /\ clock = 0

NextWorkers ==
    \/ \E w \in Workers, t \in tokens, v \in {AnnVisit, BobVisit} :
          create_visitor_begin(w, t, v)
    \/ \E w \in Workers : create_visitor_insert(w)
    \/ \E w \in Workers : create_visitor_locked(w)
    \/ \E w \in Workers : create_visitor_post(w)
    \/ \E w \in Workers, o \in LeadOutcomes : create_visitor_result(w, o)
    \/ \E w \in Workers : create_visitor_commit(w)
    \/ \E w \in Workers, t \in tokens, u \in BobCreateInputs :
          create_user_begin(w, t, u)
    \/ \E w \in Workers : create_user_insert(w)
    \/ \E w \in Workers : create_user_locked(w)
    \/ \E w \in Workers, t \in tokens, q \in WorkerQueries :
          list_visitors_count(w, t, q)
    \/ \E w \in Workers : list_visitors_page(w)
    \/ \E t \in tokens, id \in VisitorIdInputs : delete_visitor_unlocked(t, id)
    \/ Crash
    \/ SendResponse

SpecWorkers == InitWorkers /\ [][NextWorkers]_vars

(***************************************************************************)
(* Concurrent notes: two workers run add_note step by step on the visitor  *)
(* that a create_visitor has stored, while the visitor may be deleted and  *)
(* time passes.  No webhook is configured.                                 *)
(***************************************************************************)
NoteTexts == [agent_id : {1}, note : {"left a voicemail", "toured lot 4"}]

\* The visitors table after POST /visitors with AnnVisit at time 0.
VisitorsAtStart == Stored(EmptyVisitors, 1, VisitorRow(1, AnnVisit, 0))

NotedVisitorIds == {1, 2}

InitNotes ==
    /\ agents = AgentDirectory
    /\ users = UsersWithAlice("user", 1)
    /\ tokens = {SuperAdminToken}
    /\ webhook_url = ""
    /\ clock = 0
    /\ visitors = VisitorsAtStart
    /\ visitor_notes = {}
    /\ sqlite_sequence = [visitors |-> 1, visitor_notes |-> 0]
    /\ zapier_calls = <<>>
    /\ last = NoResponse
    /\ inflight = [w \in Workers |-> NoRequest]

NextNotes ==
    \/ \E w \in Workers, t \in TokenInputs, id \in NotedVisitorIds,
          n \in NoteTexts : add_note_begin(w, t, id, n)
    \/ \E w \in Workers : add_note_insert(w)
    \/ \E t \in tokens, id \in NotedVisitorIds :
          delete_visitor_unlocked(t, id)
    \/ Tick
    \/ SendResponse

SpecNotes == InitNotes /\ [][NextNotes]_vars

(***************************************************************************)
(* Analytics: the super administrator and alice, agent 1's user, both      *)
(* logged in, create visitors and read the analytics.                      *)
(***************************************************************************)
\* alice created with role user for agent 1, after her login at time 0.
UsersAtAnalytics ==
    authenticate_user(UsersWithAlice("user", 1), "alice", "alice-pw-1",
                      0).users

\* A site whose name has an apostrophe, and a site argument that closes the
\* quotation and goes on with a condition.
SiteQuoted == <<"o", "'", "b">>
SiteInjected == SiteOak \o <<"'">> \o OrAlwaysTrue

AnalyticsSites == {<<>>, SiteOak, SiteElm, SiteQuoted, SiteInjected}

InitAnalytics ==
    /\ InitStore
    /\ users = UsersAtAnalytics
    /\ tokens = {SuperAdminToken, AliceToken}
    /\ webhook_url = ZAPIER_WEBHOOK_URL
    /\ clock = 0

NextAnalytics ==
    \/ \E t \in tokens, v \in {AnnVisit, BobVisit}, o \in LeadOutcomes :
          create_visitor(t, v, o)
    \/ \E t \in TokenInputs, s \in AnalyticsSites, c \in BOOLEAN :
          get_analytics(t, s, c)
    \/ SendResponse

SpecAnalytics == InitAnalytics /\ [][NextAnalytics]_vars

(***************************************************************************)
(* Properties of user administration.                                      *)
(***************************************************************************)
\* The account a token names, as stored in us: its row, or NoUser.
Holder(us, token) ==
    IF UsersNamed(us, token.sub) = {} THEN NoUser
    ELSE UserInDB(us[CHOOSE i \in UsersNamed(us, token.sub) : TRUE])

\* The token of the request answered in this step is good for an active account
\* whose stored role, when the request arrives, is in roles.
RequestBy(roles) ==
    /\ last'.op \notin {"none", "login"}
    /\ jwt_decode(last'.request.token, clock).ok
    /\ Holder(users, last'.request.token).active = 1
    /\ Holder(users, last'.request.token).role \in roles

Refused ==
    /\ last'.status = 403
    /\ UNCHANGED storeVars

SuperAdminRows(us) == {us[i] : i \in {j \in 1..Len(us) : us[j].role = "super_admin"}}

\* The account a step's request acts for: the token's holder, or for login
\* the account whose credentials were presented.
ActsAsSuperAdmin ==
    \/ RequestBy({"super_admin"})
    \/ /\ last'.op = "login"
       /\ last'.status = 200
       /\ \E i \in 1..Len(users) :
            /\ users[i].username = last'.request.username
            /\ users[i].role = "super_admin"

UserAdminOps == {"create_user", "list_users", "update_user", "delete_user"}

TargetsSuperAdmin ==
    /\ last'.op \in {"update_user", "delete_user"}
    /\ last'.request.user_id \in 1..Len(users)
    /\ users[last'.request.user_id].role = "super_admin"

\* C2: a request by an admin that would create a super_admin, assign the role
\* super_admin to an account, or modify or deactivate a super_admin account is
\* answered 403
\* and changes nothing; the super_admin rows change only in steps whose request
\* acts for a super_admin.
C2_AdminNeverTouchesSuperAdmin ==
    [][ /\ (RequestBy({"admin"}) /\ last'.op = "create_user"
               /\ last'.request.user.role = "super_admin") => Refused
        /\ (RequestBy({"admin"}) /\ last'.op = "update_user"
               /\ last'.request.user_id \in 1..Len(users)
               /\ last'.request.user_update.role = "super_admin") => Refused
        /\ (RequestBy({"admin"}) /\ TargetsSuperAdmin) => Refused
        /\ (SuperAdminRows(users') # SuperAdminRows(users)) => ActsAsSuperAdmin
      ]_vars

\* An admin's update of a super_admin account has just been refused.
C2_Witness ==
    /\ last.op = "update_user"
    /\ last.caller.role = "admin"
    /\ last.request.user_id \in 1..Len(users)
    /\ users[last.request.user_id].role = "super_admin"
    /\ last.request.user_update.active = 0
    /\ last.status = 403

\* C3 (as claimed): a user-management request of an actor on its own account
\* never leaves that account inactive.
C3_NoSelfDeactivation ==
    [][ (/\ RequestBy(UserRole)
         /\ last'.op \in {"update_user", "delete_user"}
         /\ last'.request.user_id = Holder(users, last'.request.token).id)
        => users'[last'.request.user_id].active = 1 ]_vars

\* C4: a user-administration request succeeds, or changes the users table,
\* only for a caller whose stored role is admin or super_admin; for a caller
\* whose stored role is user it is answered 403 and changes nothing.
C4_UserAdminNeedsAdmin ==
    [][ last'.op \in UserAdminOps =>
          /\ (last'.status = 200 \/ users' # users)
                => RequestBy({"admin", "super_admin"})
          /\ RequestBy({"user"}) => Refused ]_vars

\* Each of the four operations has been refused to a caller of role user.
C4_Witness ==
    /\ last.op \in UserAdminOps
    /\ last.caller.role = "user"
    /\ last.status = 403
    /\ last.detail = "Not enough permissions"


(***************************************************************************)
(* Properties of login and token resolution.                               *)
(***************************************************************************)
InvalidCredentials ==
    [status |-> 401, detail |-> "Incorrect username or password",
     body |-> NoBody]

\* The three ways the credentials of the login answered in this step are bad,
\* read off the users table as it was when the request arrived.
LoginUnknownUser == UsersNamed(users, last'.request.username) = {}

LoginInactiveUser ==
    \E i \in UsersNamed(users, last'.request.username) : users[i].active = 0

LoginWrongPassword ==
    \E i \in UsersNamed(users, last'.request.username) :
        /\ users[i].active = 1
        /\ users[i].password_hash # get_password_hash(last'.request.password)

\* C6: a login for an unknown username, for an inactive account or with a
\* wrong password gets one and the same response (401, "Incorrect username or
\* password", no body) and writes nothing; no failed login gets another one.
C6_LoginFailuresIndistinguishable ==
    [][ last'.op = "login" =>
          /\ (LoginUnknownUser \/ LoginInactiveUser \/ LoginWrongPassword)
                => (/\ Visible(last') = InvalidCredentials
                    /\ UNCHANGED <<storeVars, tokens>>)
          /\ last'.status # 200 => Visible(last') = InvalidCredentials ]_vars

\* A login for an existing but deactivated account has just failed.
C6_Witness ==
    /\ last.op = "login"
    /\ last.status = 401
    /\ \E i \in UsersNamed(users, last.request.username) :
          /\ users[i].active = 0
          /\ users[i].password_hash = get_password_hash(last.request.password)

Unauthorized ==
    [status |-> 401, detail |-> "Could not validate credentials",
     body |-> NoBody]

\* C7: the token a login has just issued resolves to the account that logged
\* in; and a resolution of a server-signed, unexpired token answers with the
\* holder's username while the holder is active, and fails (401, at the live
\* user lookup) once the holder has been deactivated.
C7_TokenRoundTrip ==
    /\ (last.op = "login" /\ last.status = 200) =>
          LET r == get_current_user(last.body.access_token, users, clock) IN
          /\ r.ok
          /\ r.user.username = last.request.username
    /\ (/\ last.op = "read_users_me"
        /\ last.request.token.key = SECRET_KEY
        /\ last.request.token.exp >= clock) =>
          IF Holder(users, last.request.token).active = 1
          THEN /\ last.status = 200
               /\ last.body.username = last.request.token.sub
          ELSE /\ Visible(last) = Unauthorized
               /\ last.cause = "unknown_or_inactive"

\* A token issued to alice, still unexpired, has just been refused because
\* alice is deactivated.
C7_Witness ==
    /\ last.op = "read_users_me"
    /\ last.request.token \in tokens
    /\ last.request.token.sub = "alice"
    /\ last.request.token.exp >= clock
    /\ Holder(users, last.request.token).active = 0
    /\ last.status = 401

TokenFailure(token) ==
    IF token.key # SECRET_KEY THEN "InvalidToken"
    ELSE IF token.exp < clock THEN "ExpiredToken"
    ELSE IF Holder(users, token).active # 1 THEN "UnknownOrInactiveUser"
    ELSE "none"

\* C9 (as claimed): the three failures of token resolution are reported as
\* distinct failures: two tokens that fail for different reasons get
\* different responses.
C9_DistinctFailures ==
    \A t1, t2 \in TokenInputs :
        (/\ TokenFailure(t1) # "none"
         /\ TokenFailure(t2) # "none"
         /\ TokenFailure(t1) # TokenFailure(t2))
        => LET r1 == get_current_user(t1, users, clock)
               r2 == get_current_user(t2, users, clock)
           IN <<r1.status, r1.detail>> # <<r2.status, r2.detail>>

\* C9 (amended): a token resolves exactly when its signature is the server's,
\* it is not past its expiry and its subject is an active account; each of the
\* three failures is answered with the same 401 "Could not validate
\* credentials".  A token expires 8 hours after the login that issued it, and
\* no token is ever valid for longer than that from now (nothing refreshes it).
C9_ResolutionFailures ==
    /\ last.op = "read_users_me" =>
          /\ last.status = 200 <=> TokenFailure(last.request.token) = "none"
          /\ last.status # 200 => Visible(last) = Unauthorized
    /\ (last.op = "login" /\ last.status = 200) =>
          last.body.access_token.exp = clock + ACCESS_TOKEN_EXPIRE_MINUTES
    /\ \A t \in tokens : t.exp <= clock + ACCESS_TOKEN_EXPIRE_MINUTES

\* A server-signed token of an active account has just been refused because
\* it is past its expiry.
C9_Witness ==
    /\ last.op = "read_users_me"
    /\ TokenFailure(last.request.token) = "ExpiredToken"
    /\ Holder(users, last.request.token).active = 1
    /\ Visible(last) = Unauthorized

(***************************************************************************)
(* Properties of visitor access.                                           *)
(***************************************************************************)
\* The account whose token the answered request carried, as stored.
Caller == Holder(users, last.request.token)

Answered(op) == last.op = op /\ last.status = 200

Admins == {"admin", "super_admin"}

OwnRow(row) == row.capturing_agent_id = Caller.agent_id

\* C1: for a caller whose role is user, every visitor that list_visitors
\* returns or counts under any filters, sort and page, that get_visitor and
\* export_visitors_csv return, and that get_stats counts, is of the caller's
\* agent; an admin or super_admin reads every stored visitor.
C1_UserScope ==
    /\ (Answered("list_visitors") /\ Caller.role = "user") =>
          /\ \A i \in 1..Len(last.body.visitors) : OwnRow(last.body.visitors[i])
          /\ \A id \in last.rows : OwnRow(visitors[id])
          /\ last.body.total = Cardinality(last.rows)
    /\ (Answered("get_visitor") /\ Caller.role = "user") =>
          OwnRow(last.body.visitor)
    /\ (Answered("export_visitors_csv") /\ Caller.role = "user") =>
          \A i \in 1..Len(last.body.csv) : OwnRow(last.body.csv[i].visitor)
    /\ (Answered("get_stats") /\ Caller.role = "user") =>
          /\ \A id \in last.rows.total_visitors \cup last.rows.today_visitors
                       \cup last.rows.cinc_synced : OwnRow(visitors[id])
          /\ last.body.total_visitors = Cardinality(last.rows.total_visitors)
          /\ last.body.today_visitors = Cardinality(last.rows.today_visitors)
          /\ last.body.cinc_synced = Cardinality(last.rows.cinc_synced)
    /\ (Answered("list_visitors") /\ Caller.role \in Admins
        /\ last.request.query = DefaultQuery) =>
          /\ last.rows = DOMAIN visitors
          /\ {last.body.visitors[i].id : i \in 1..Len(last.body.visitors)}
               = DOMAIN visitors
    /\ (last.op = "get_visitor" /\ last.status # 401
        /\ Caller.role \in Admins
        /\ last.request.visitor_id \in DOMAIN visitors) =>
          /\ last.status = 200
          /\ last.body.visitor = visitors[last.request.visitor_id]
    /\ (Answered("export_visitors_csv") /\ Caller.role \in Admins
        /\ last.request.site = <<>>) =>
          {last.body.csv[i].visitor.id : i \in 1..Len(last.body.csv)}
            = DOMAIN visitors
    /\ (Answered("get_stats") /\ Caller.role \in Admins
        /\ last.request.site = <<>>) =>
          last.body.total_visitors = Cardinality(DOMAIN visitors)

\* A user's search returned a lead of the user's agent while a lead of another
\* agent, which the same search matches, is stored.
C1_Witness ==
    /\ Answered("list_visitors")
    /\ Caller.role = "user"
    /\ last.request.query.search # <<>>
    /\ last.request.query.price_range # NONE
    /\ Len(last.body.visitors) = 1
    /\ \E id \in DOMAIN visitors :
          visitors[id].capturing_agent_id # Caller.agent_id

\* C5: a visitor or a note leaves the store only in a delete_visitor whose
\* caller's stored role is admin or super_admin; a caller whose role is user
\* is answered 403, also for a visitor of the caller's own agent, and the
\* visitors and notes stay as they were.
C5_DeleteVisitorNeedsAdmin ==
    [][/\ (DOMAIN visitors' # DOMAIN visitors \cup DOMAIN visitors'
           \/ visitor_notes' # visitor_notes \cup visitor_notes') =>
             /\ last'.op = "delete_visitor"
             /\ RequestBy(Admins)
       /\ (last'.op = "delete_visitor" /\ RequestBy({"user"})) =>
             /\ last'.status = 403
             /\ UNCHANGED <<visitors, visitor_notes>>
       /\ (last'.op = "delete_visitor" /\ RequestBy(Admins)
           /\ last'.request.visitor_id \in DOMAIN visitors) =>
             /\ last'.status = 200
             /\ DOMAIN visitors' = DOMAIN visitors \ {last'.request.visitor_id}
             /\ \A n \in visitor_notes' :
                   n.visitor_id # last'.request.visitor_id
      ]_vars

\* A user was refused the deletion of a visitor of the user's own agent that
\* has a note.
C5_Witness ==
    /\ last.op = "delete_visitor"
    /\ last.status = 403
    /\ Caller.role = "user"
    /\ last.request.visitor_id \in DOMAIN visitors
    /\ OwnRow(visitors[last.request.visitor_id])
    /\ \E n \in visitor_notes : n.visitor_id = last.request.visitor_id

\* C8: every request with a good token is decided on the role and agent_id
\* stored for its subject when the request arrives, whatever they were at
\* login: the handler acts for the stored account, an account whose stored
\* role is user is refused delete_visitor and user administration and gets
\* listings of its stored agent only, and an account whose stored role is
\* admin or super_admin is not refused delete_visitor.
C8_RoleChangeImmediate ==
    [][(last'.op \notin {"none", "login"}) =>
          /\ RequestBy(UserRole) =>
                /\ last'.status # 401
                /\ last'.caller = Holder(users, last'.request.token)
          /\ (RequestBy({"user"})
              /\ last'.op \in UserAdminOps \cup {"delete_visitor"}) => Refused
          /\ (RequestBy({"user"}) /\ last'.op = "list_visitors"
              /\ last'.status = 200) =>
                \A i \in 1..Len(last'.body.visitors) :
                    last'.body.visitors[i].capturing_agent_id
                      = Holder(users, last'.request.token).agent_id
          /\ (RequestBy(Admins) /\ last'.op = "delete_visitor") =>
                last'.status # 403
          /\ (RequestBy(Admins) /\ last'.op = "list_users") =>
                last'.status = 200
      ]_vars

\* alice, who logged in as admin and is now stored as user, was refused
\* delete_visitor on the token of that login.
C8_Witness ==
    /\ last.op = "delete_visitor"
    /\ last.status = 403
    /\ last.request.token = AliceToken
    /\ Holder(UsersAtLogin, AliceToken).role = "admin"
    /\ Caller.role = "user"

\* C10: a create_visitor for an agent of the directory whose outbound call
\* fails (unreachable, timeout or error status) is answered 200 with
\* synced false and an error string, and stores the visitor with
\* cinc_synced 0; a stored cinc_synced of 0 never changes; and every listing
\* returns the stored rows.
C10_FailedSyncKeepsVisitor ==
    [][/\ (/\ last'.op = "create_visitor"
           /\ RequestBy(UserRole)
           /\ last'.request.visitor.capturing_agent_id \in agents
           /\ webhook_url # ""
           /\ last'.request.outcome # "ok") =>
             /\ last'.status = 200
             /\ last'.body.synced = FALSE
             /\ Truthy(last'.body.sync_error)
             /\ last'.body.id \notin DOMAIN visitors
             /\ last'.body.id \in DOMAIN visitors'
             /\ visitors'[last'.body.id].cinc_synced = 0
             /\ visitors'[last'.body.id].buyer_name
                  = last'.request.visitor.buyer_name
       /\ \A id \in DOMAIN visitors \cap DOMAIN visitors' :
             visitors[id].cinc_synced = 0 => visitors'[id].cinc_synced = 0
       /\ (last'.op = "list_visitors" /\ last'.status = 200) =>
             \A i \in 1..Len(last'.body.visitors) :
                 /\ last'.body.visitors[i].id \in DOMAIN visitors
                 /\ last'.body.visitors[i]
                      = visitors[last'.body.visitors[i].id]
      ]_vars

\* A visitor was created although the webhook could not be reached.
C10_Witness ==
    /\ last.op = "create_visitor"
    /\ last.request.outcome = "unreachable"
    /\ last.status = 200
    /\ last.body.synced = FALSE
    /\ visitors[last.body.id].cinc_synced = 0

(***************************************************************************)
(* Properties of the listing parameters.                                   *)
(***************************************************************************)
Query == last.request.query

ValidPaging(q) == q.page >= 1 /\ q.page_size >= 1 /\ q.page_size <= 100

\* ceil(total / page_size): the least n with n * page_size >= total.
Ceil(total, page_size) ==
    CHOOSE n \in 0..total : n * page_size >= total
                            /\ \A m \in 0..total : m * page_size >= total => n <= m

\* C13: a list_visitors request with page >= 1 and 1 <= page_size <= 100 and
\* valid sort parameters is answered with total_pages = ceil(total /
\* page_size), which is 0 when total is 0, and with at most page_size
\* visitors.
C13_TotalPages ==
    (last.op = "list_visitors" /\ last.status \notin {401, 422}
     /\ ValidPaging(Query)) =>
        /\ last.status = 200
        /\ last.body.total_pages = Ceil(last.body.total, Query.page_size)
        /\ last.body.total = 0 => last.body.total_pages = 0
        /\ Len(last.body.visitors) <= Query.page_size
        /\ last.body.page = Query.page
        /\ last.body.page_size = Query.page_size

\* A listing of two matches on pages of two, and one of a single match.
C13_Witness ==
    /\ Answered("list_visitors")
    /\ Query.page_size = 2
    /\ last.body.total = 1
    /\ last.body.total_pages = 1
    /\ Len(last.body.visitors) = 1

\* C14: a list_visitors request with page < 1, page_size < 1 or page_size >
\* 100 is answered 400 with no body: nothing is listed for a page or size
\* put in place of the one asked for, and the handler runs no query.
C14_BadPagingRejected ==
    (last.op = "list_visitors" /\ last.status \notin {401, 422}
     /\ ~ValidPaging(Query)) =>
        /\ last.status = 400
        /\ last.body = NoBody
        /\ "rows" \notin DOMAIN last
        /\ last.detail = IF Query.page < 1 THEN "Page must be >= 1"
                         ELSE "Page size must be between 1 and 100"

\* A page size of 101 was refused while visitors are stored.
C14_Witness ==
    /\ last.op = "list_visitors"
    /\ last.status = 400
    /\ Query.page_size = 101
    /\ DOMAIN visitors # {}

\* C15: whenever list_visitors queries the store, the column it orders by is
\* one of created_at, buyer_name, site, updated_at and the direction is asc
\* or desc; a request with any other sort field or direction is refused
\* and runs no query.  export_visitors_csv takes no sort parameter: it
\* returns its rows by created_at, newest first.
C15_SortAllowList ==
    /\ (last.op = "list_visitors" /\ "rows" \in DOMAIN last) =>
          /\ Query.sort_by \in {"created_at", "buyer_name", "site", "updated_at"}
          /\ Query.sort_order \in {"asc", "desc"}
    /\ (last.op = "list_visitors" /\ last.status # 401
        /\ (Query.sort_by \notin {"created_at", "buyer_name", "site",
                                  "updated_at"}
            \/ Query.sort_order \notin {"asc", "desc"})) =>
          /\ last.status = 422
          /\ last.body = NoBody
          /\ "rows" \notin DOMAIN last
    /\ Answered("export_visitors_csv") =>
          /\ DOMAIN last.request = {"token", "site"}
          /\ \A i \in 1..(Len(last.body.csv) - 1) :
                last.body.csv[i].visitor.created_at
                  >= last.body.csv[i + 1].visitor.created_at

\* A sort field made of SQL text was refused while visitors are stored.
C15_Witness ==
    /\ last.op = "list_visitors"
    /\ last.status = 422
    /\ Query.sort_by = "id; DROP TABLE visitors"
    /\ DOMAIN visitors # {}

(***************************************************************************)
(* Properties of dispatch and of references to absent records.             *)
(***************************************************************************)
Created == last'.op = "create_visitor" /\ last'.status = 200

Dispatched == {zapier_calls[i] : i \in 1..Len(zapier_calls)}

\* C12: a create_visitor that stores a visitor makes no outbound call when
\* the webhook is not configured, answers synced false with the "not
\* configured" error and stores cinc_synced 0; when the webhook is
\* configured it makes exactly one call, for the new visitor; no other
\* step makes an outbound call, so a failed call is never repeated.
C12_OneCallPerCreation ==
    [][/\ (Created /\ webhook_url = "") =>
             /\ zapier_calls' = zapier_calls
             /\ last'.body.synced = FALSE
             /\ last'.body.sync_error = "Zapier webhook URL not configured"
             /\ visitors'[last'.body.id].cinc_synced = 0
       /\ (Created /\ webhook_url # "") =>
             /\ last'.body.id \notin Dispatched
             /\ zapier_calls' = Append(zapier_calls, last'.body.id)
       /\ ~Created => zapier_calls' = zapier_calls
      ]_vars

\* A visitor was created with the webhook not configured, and no call was
\* made.
C12_Witness ==
    /\ last.op = "create_visitor"
    /\ last.status = 200
    /\ webhook_url = ""
    /\ last.body.synced = FALSE
    /\ last.body.id \in DOMAIN visitors
    /\ zapier_calls = <<>>

\* C16: every account whose role is user has an agent_id.
C16_UserHasAgent ==
    \A i \in 1..Len(users) : users[i].role = "user" => users[i].agent_id # NULL

\* The request answered in this step names an agent, a user or a visitor
\* that is not stored.
AbsentReference ==
    \/ /\ last'.op = "create_visitor"
       /\ last'.request.visitor.capturing_agent_id \notin agents
    \/ /\ last'.op = "create_user"
       /\ last'.request.user.agent_id # NULL
       /\ last'.request.user.agent_id \notin agents
    \/ /\ last'.op = "update_user"
       /\ \/ last'.request.user_id \notin 1..Len(users)
          \/ /\ last'.request.user_update.agent_id # NULL
             /\ last'.request.user_update.agent_id \notin agents
    \/ /\ last'.op \in {"add_note", "get_visitor", "delete_visitor"}
       /\ last'.request.visitor_id \notin DOMAIN visitors

\* C18: a request that names an absent agent, user or visitor stores
\* nothing, makes no outbound call and is not answered 200; it is answered
\* 404 whenever its caller is an active super_admin and, for create_user,
\* the username is not taken (that test comes first and answers 400).
C18_AbsentReferenceChangesNothing ==
    [][AbsentReference =>
          /\ UNCHANGED <<storeVars, zapier_calls>>
          /\ last'.status # 200
          /\ last'.body = NoBody
          /\ (/\ RequestBy({"super_admin"})
              /\ ~(/\ last'.op = "create_user"
                   /\ UsersNamed(users, last'.request.user.username) # {})) =>
                /\ last'.status = 404
                /\ last'.detail \in {"Agent not found", "User not found",
                                     "Visitor not found"}
      ]_vars

\* An update_user that names agent 3 for a stored account was answered 404.
C18_Witness ==
    /\ last.op = "update_user"
    /\ last.status = 404
    /\ last.detail = "Agent not found"
    /\ last.request.user_id \in 1..Len(users)
    /\ last.request.user_update.agent_id \notin agents

(***************************************************************************)
(* Properties of concurrent requests.                                      *)
(***************************************************************************)
\* The visitor ids the database has committed so far.
Committed == 1..sqlite_sequence.visitors

\* C11: the visitor record is committed before its dispatch is attempted, so
\* that whatever happens after the dispatch has started, a process stop
\* included, every lead that was dispatched has its visitor committed to
\* storage.
C11_DispatchedIsCommitted ==
    \A i \in 1..Len(zapier_calls) : zapier_calls[i] \in Committed

\* C17: a create_user request for a username that an account already has,
\* sent by an administrator, ends in 400 "Username already exists", also
\* when another creation of that username passed the existence check at the
\* same time; it never ends in a raw storage error.
C17_DuplicateIsConflict ==
    (/\ last.op = "create_user"
     /\ last.status \notin {200, 401, 403}
     /\ UsersNamed(users, last.request.user.username) # {})
    => (last.status = 400 /\ last.detail = "Username already exists")

\* C19: a create_visitor in flight, one awaiting its outbound call included,
\* holds no lock that another create_visitor needs: no create_visitor waits
\* at its INSERT behind another one, and none fails for it.
C19_CreationsIndependent ==
    /\ \A w \in Workers :
          (inflight[w].op = "create_visitor" /\ inflight[w].pc = "insert")
          => \A v \in Workers \ {w} :
                ~(inflight[v].op = "create_visitor" /\ v \in Writers)
    /\ last.op = "create_visitor" => last.status # 500

Min(a, b) == IF a < b THEN a ELSE b

Max(a, b) == IF a > b THEN a ELSE b

\* C20: in every list_visitors response the number of returned visitors is
\* min(page_size, max(0, total - (page - 1) * page_size)), also when other
\* requests commit creations or deletions between its count fetch and its
\* page fetch.
C20_PageMatchesTotal ==
    (last.op = "list_visitors" /\ last.status = 200)
    => Len(last.body.visitors) =
         Min(last.request.query.page_size,
             Max(0, last.body.total
                      - (last.request.query.page - 1)
                          * last.request.query.page_size))

(***************************************************************************)
(* Properties of the stored sync outcome.                                  *)
(***************************************************************************)
\* C21: once create_visitor has returned, the synced value of its response
\* is the stored cinc_synced of the visitor it created, and every stored
\* visitor has a sync timestamp exactly when its cinc_synced is 1.
C21_SyncOutcomeStored ==
    /\ Answered("create_visitor")
         => /\ last.body.id \in DOMAIN visitors
            /\ last.body.synced = (visitors[last.body.id].cinc_synced = 1)
    /\ \A id \in DOMAIN visitors :
          (visitors[id].cinc_sync_at # NULL) = (visitors[id].cinc_synced = 1)

C21_Witness ==
    /\ Answered("create_visitor")
    /\ last.body.synced
    /\ visitors[last.body.id].cinc_synced = 1
    /\ visitors[last.body.id].cinc_sync_at = clock
    /\ \E id \in DOMAIN visitors : visitors[id].cinc_synced = 0

(***************************************************************************)
(* Properties of token resolution and issuance.                            *)
(***************************************************************************)
\* The request that the step answers.
Handled(op) == last.op = "none" /\ last'.op = op

\* C22: resolving a token never changes the users table (a request that
\* only resolves its token, or whose resolution fails, leaves it as it was),
\* a token that resolves before and after a step that changes no user
\* resolves to the same identity, and last_login changes only in a
\* successful login, for the account that logged in; a failed login changes
\* nothing.
C22_ResolutionIsPure ==
    [][/\ Handled("read_users_me") => users' = users
       /\ (last.op = "none" /\ last'.status = 401) => users' = users
       /\ \A t \in TokenInputs :
             (/\ users' = users
              /\ get_current_user(t, users, clock).ok
              /\ get_current_user(t, users', clock').ok)
             => get_current_user(t, users', clock').user
                  = get_current_user(t, users, clock).user
       /\ \A i \in 1..Len(users) :
             users'[i].last_login # users[i].last_login
             => /\ Handled("login")
                /\ last'.status = 200
                /\ last'.caller.id = users[i].id
                /\ users'[i].last_login = clock]_vars

C22_Witness ==
    /\ Answered("read_users_me")
    /\ clock > 0
    /\ \E i \in 1..Len(users) :
          /\ users[i].id = last.body.id
          /\ users[i].last_login # NULL
          /\ users[i].last_login < clock
    /\ \E i \in 1..Len(users) : users[i].last_login = clock

(***************************************************************************)
(* Properties of the visitor filters.                                      *)
(***************************************************************************)
\* term occurs in text, letters compared without their case.
Contains(text, term) ==
    \E k \in 0..(Len(text) - Len(term)) :
        \A i \in 1..Len(term) : Lower(text[k + i]) = Lower(term[i])

\* The row satisfies every filter that q supplies, the search apart.
Filtered(q, row) ==
    /\ q.site # <<>> => row.site = q.site
    /\ q.date_from # NULL => Date(row.created_at) >= q.date_from
    /\ q.date_to # NULL => Date(row.created_at) <= q.date_to
    /\ q.purchase_timeline # NONE => row.purchase_timeline = q.purchase_timeline
    /\ q.price_range # NONE => row.price_range = q.price_range
    /\ q.cinc_synced # NULL => row.cinc_synced = q.cinc_synced

\* C23: the visitors that list_visitors matches are exactly those in the
\* caller's scope that satisfy every supplied filter and, when a search term
\* is given, have the term as a substring, case ignored, of their name, of
\* their phone or of their email.
C23_MatchedExactly ==
    Answered("list_visitors")
    => last.rows =
         {id \in DOMAIN visitors :
            /\ last.caller.role = "user"
                 => AgentIs(visitors[id], last.caller.agent_id)
            /\ Filtered(Query, visitors[id])
            /\ Query.search # <<>>
                 => \/ Contains(visitors[id].buyer_name, Query.search)
                    \/ Contains(visitors[id].buyer_phone, Query.search)
                    \/ Contains(visitors[id].buyer_email, Query.search)}

(***************************************************************************)
(* Properties of account removal.                                          *)
(***************************************************************************)
\* The ids of the stored accounts.
UserIds(us) == {us[i].id : i \in 1..Len(us)}

\* C25: no operation removes a user row (the stored user ids only grow),
\* and delete_user changes nothing but the active flag of its target, which
\* it sets to 0: username, role, agent_id and password hash stay.
C25_UsersNeverRemoved ==
    [][/\ UserIds(users) \subseteq UserIds(users')
       /\ Handled("delete_user")
            => /\ UNCHANGED <<agents, visitors, visitor_notes>>
               /\ \/ users' = users
                  \/ /\ last'.status = 200
                     /\ last'.request.user_id \in 1..Len(users)
                     /\ users[last'.request.user_id].id
                          = last'.request.user_id
                     /\ users' =
                          [users EXCEPT ![last'.request.user_id].active = 0]
               /\ last'.status = 200
                    => users'[last'.request.user_id].active = 0]_vars

C25_Witness ==
    /\ Answered("delete_user")
    /\ \E i \in 1..Len(users) :
          /\ users[i].id = last.request.user_id
          /\ users[i].active = 0
          /\ users[i].username = "alice"
          /\ users[i].password_hash = get_password_hash("alice-pw-1")

(***************************************************************************)
(* Properties of the dashboard statistics.                                 *)
(***************************************************************************)
\* C27: in every get_stats response the three counts are taken over the
\* same visitors, those of the caller's scope at the site asked for, so that
\* the synced count and the count of today are at most the total, whatever
\* the caller's role and the site argument.
C27_StatsOverOneSet ==
    Answered("get_stats")
    => /\ last.rows.cinc_synced \subseteq last.rows.total_visitors
       /\ last.rows.today_visitors \subseteq last.rows.total_visitors
       /\ last.body.cinc_synced <= last.body.total_visitors
       /\ last.body.today_visitors <= last.body.total_visitors

(***************************************************************************)
(* Properties of failed requests.                                          *)
(***************************************************************************)
\* C30: a request that is answered with an error (401, 403, 404, 400, 422)
\* leaves the stored users, visitors and notes as they were before it.
C30_ErrorsChangeNothing ==
    [][(last.op = "none" /\ last'.status \notin {0, 200})
       => UNCHANGED <<users, agents, visitors, visitor_notes,
                      sqlite_sequence>>]_vars

C30_Witness ==
    /\ last.op = "update_user"
    /\ last.status = 404
    /\ last.cause = "agent_not_found"
    /\ last.request.user_id \in 1..Len(users)
    /\ users[last.request.user_id].agent_id # last.request.user_update.agent_id
    /\ DOMAIN visitors # {}

(***************************************************************************)
(* Properties of concurrent notes.                                         *)
(***************************************************************************)
\* Worker w returns from add_note in this step.
NoteAdded(w) ==
    /\ inflight[w].op = "add_note"
    /\ inflight'[w] = NoRequest
    /\ last'.op = "add_note"

\* C24: an add_note that has found its visitor always ends by storing its
\* note next to the notes already stored, whatever the other request did in
\* between: no stored note is overwritten or dropped, and the visitor's
\* updated_at becomes the time of this write, the latest one.
C24_BothNotesStored ==
    [][\A w \in Workers :
         NoteAdded(w)
         => /\ last'.status = 200
            /\ visitor_notes \subseteq visitor_notes'
            /\ Cardinality(visitor_notes') = Cardinality(visitor_notes) + 1
            /\ \E n \in visitor_notes' \ visitor_notes :
                  /\ n.id = last'.body.id
                  /\ n.visitor_id = inflight[w].request.visitor_id
                  /\ n.note = inflight[w].request.note.note
            /\ inflight[w].request.visitor_id \in DOMAIN visitors
                 => /\ visitors'[inflight[w].request.visitor_id].updated_at
                         = clock
                    /\ visitors[inflight[w].request.visitor_id].updated_at
                         <= clock]_vars

\* One add_note has stored its note while the other, which found the same
\* visitor with an earlier note on it, is still to write.
C24_Witness ==
    /\ Answered("add_note")
    /\ \E w \in Workers :
          /\ inflight[w].op = "add_note"
          /\ inflight[w].request.visitor_id = last.request.visitor_id
          /\ inflight[w].request.note # last.request.note
    /\ last.request.visitor_id \in DOMAIN visitors
    /\ visitors[last.request.visitor_id].updated_at = clock
    /\ clock > 0
    /\ \E n \in visitor_notes :
          n.id = last.body.id /\ n.visitor_id = last.request.visitor_id

\* C26: every stored note refers to a stored visitor, also after an add_note
\* whose visitor was deleted between its check and its INSERT.
C26_NotesHaveVisitors ==
    \A n \in visitor_notes : n.visitor_id \in DOMAIN visitors

(***************************************************************************)
(* Properties of the analytics.                                            *)
(***************************************************************************)
\* C28: a caller-supplied filter value reaches storage as a value only,
\* never as query text: the per-agent counts that get_analytics returns for
\* a site argument count, for each agent listed, its visitors whose site is
\* that argument, and nothing else.
C28_SiteIsBoundValue ==
    (/\ Answered("get_analytics")
     /\ last.caller.role \in Admins
     /\ last.request.site # <<>>)
    => \A i \in 1..Len(last.body.leads_by_agent) :
          /\ last.body.leads_by_agent[i].count > 0
          /\ last.body.leads_by_agent[i].count =
               Cardinality(
                 {id \in DOMAIN visitors :
                    /\ visitors[id].capturing_agent_id =
                         last.body.leads_by_agent[i].agent_name
                    /\ visitors[id].site = last.request.site})

\* The visitors of the caller's agent, at the site asked for if any.
OwnAt(site) ==
    {id \in DOMAIN visitors :
        /\ AgentIs(visitors[id], last.caller.agent_id)
        /\ site # <<>> => visitors[id].site = site}

\* list holds one entry per value of Key among the visitors ids, with the
\* number of those visitors that have the value.
CountsOver(list, ids, field, Key(_)) ==
    /\ \A i \in 1..Len(list) :
          /\ list[i].count > 0
          /\ list[i].count =
               Cardinality({id \in ids : Key(visitors[id]) = list[i][field]})
    /\ \A id \in ids :
          \E i \in 1..Len(list) : list[i][field] = Key(visitors[id])

\* C29: for a caller of role user every aggregate of get_analytics counts
\* only the visitors of the caller's agent (at the site asked for, if any)
\* and leads_by_agent is empty; per-agent counts go to administrators only.
C29_UserAnalyticsScoped ==
    Answered("get_analytics")
    => /\ last.body.leads_by_agent # <<>> => last.caller.role \in Admins
       /\ last.caller.role = "user"
            => LET own == OwnAt(last.request.site)
                   Day(row) == Date(row.created_at)
                   Timeline(row) == OrUnknown(row.purchase_timeline)
                   Price(row) == OrUnknown(row.price_range)
                   Site(row) == row.site
               IN /\ last.rows = own
                  /\ last.body.leads_by_agent = <<>>
                  /\ CountsOver(last.body.leads_by_day, own, "date", Day)
                  /\ CountsOver(last.body.leads_by_timeline, own, "timeline",
                                Timeline)
                  /\ CountsOver(last.body.leads_by_price, own, "price_range",
                                Price)
                  /\ CountsOver(last.body.leads_by_site, own, "site", Site)
                  /\ last.body.sync_stats.synced =
                       Cardinality({id \in own : visitors[id].cinc_synced = 1})
                  /\ last.body.sync_stats.not_synced =
                       Cardinality({id \in own : visitors[id].cinc_synced = 0})

C29_Witness ==
    /\ Answered("get_analytics")
    /\ last.caller.role = "user"
    /\ last.request.site = SiteOak
    /\ OwnAt(SiteOak) # {}
    /\ \E id \in DOMAIN visitors :
          visitors[id].capturing_agent_id # last.caller.agent_id
    /\ last.body.leads_by_agent = <<>>
    /\ Len(last.body.leads_by_site) = 1

====
